---- MODULE Spec2Model ----
(***************************************************************************)
(* Model of the NYC census-tract dashboard's data pipeline:                *)
(*   - the derived-metric calculator and transformTractData                *)
(*     (config/censusConfig.ts, services/censusApi.ts),                    *)
(*   - the geometry sanitizer, the water-tract classifier and the          *)
(*     boundary source resolver fetchNYCTractsGeoJSON, in the three        *)
(*     versions of services/geojsonService.ts the repository holds,        *)
(*   - the load cycle of the useCensusData hook, with the merge step.      *)
(*                                                                         *)
(* Conventions.  A JavaScript string is a sequence of one-character        *)
(* strings; a missing/undefined/empty value is the empty sequence <<>>,    *)
(* an optional number v is <<v>>.  Coordinates are integers in             *)
(* millidegrees (-74.5 is -74500), so an area is in 10^-6 square degrees.  *)
(* A toFixed(d) string is a record [scaled, dec]: "15.0" is                *)
(* [scaled |-> 150, dec |-> 1].                                            *)
(***************************************************************************)
EXTENDS Integers, Sequences, FiniteSets, TLC

VARIABLES
    \* ---- useCensusData hook state (hooks/useCensusData.ts:29-32)
    tractsData, geoJsonData, loading, error,
    \* ---- position of loadData and of the calls it awaits
    pc,            \* "mount" | "stats" | "geo1" | "geo2" | "done"
    variant,       \* which version of geojsonService.ts is deployed
    countyIdx,     \* index of the county fetchNYCTractsData is fetching
    allTracts,     \* fetchNYCTractsData's accumulator
    transformed,   \* loadData's local `transformed`
    boundaries,    \* the feature list the resolver returned (before the merge)
    \* ---- bookkeeping of fetchNYCTractsGeoJSON
    attempts1, attempts2,   \* fetches issued to source 1 / source 2
    src1Outcome,            \* how the first source ended
    src2Outcome,            \* how the second source ended
    src2Counties,           \* county filter the second source was queried with
    resolverResult,         \* "pending" | "data" | "null" | "reject"
    \* ---- bookkeeping of fetchNYCTractsData
    statsResult,            \* "pending" | "resolved" | "rejected"
    anyCountyOk,            \* some county answered 2xx with a parsable body
    \* ---- pure-function harness: transformTractData
    rawIn, xformOut, xformDone,
    \* ---- pure-function harness: validateAndFixGeometry / fixCoordinates
    coordIn, coordOut, geomIn, geomOut, coordDone, geomDone,
    \* ---- CensusApiCache (services/censusApi.ts:34-65) and its clock
    cacheMap,      \* apiCache.cache: key -> entry
    now,           \* Date.now(), in milliseconds
    ticks,         \* how often the clock has advanced
    askedExpiry,   \* key -> the expiry argument of the last set
    lastGet,       \* the last call of get: what it found and returned
    \* ---- overlapping calls of loadData and of fetchTractData
    cyc,           \* per call of loadData: position and local variables
    started,       \* calls of loadData so far
    tractCall,     \* per call of fetchTractData: position
    setCount,      \* key -> calls of apiCache.set so far
    \* ---- providers that never answer
    silent,        \* the fetches that stay pending forever
    \* ---- input and output of the water classifiers
    waterIn,       \* the feature handed to isWaterTract
    waterOut,      \* what each classifier returned, and whether the first
                   \* filter of each filtering source kept the feature
    waterDone,     \* TRUE once waterOut is the result for waterIn
    \* ---- input and output of the identifier normalizers
    normIn,        \* the feature handed to the map step of a source
    normOut,       \* per normalizer: GEOID and county after one and two passes
    normDone,      \* TRUE once normOut is the result for normIn
    \* ---- input and output of the slider filter of MapView
    filterIn,      \* feature.properties handed to isTractMatchingFilters
    variables,     \* the sliders of the page: id and [min, max]
    filterOut,     \* what isTractMatchingFilters returned
    filterDone,    \* TRUE once filterOut is the result for filterIn
    \* ---- ResultsPanel
    panelVersion,  \* which of the two sorting versions of the panel runs
    sortColumn,    \* useState<SortColumn>(null)
    sortDirection, \* useState<SortDirection>(null)
    lastClick,     \* the last header click: column, and the state it met
    \* ---- pages/index.tsx: the selection
    selectedTracts,  \* useState<any[]>([]): the GEOID of each entry
    renderedTracts,  \* selectedTracts as captured by the handlers of the
                     \* last render
    \* ---- components/MapView: hover
    loadingTract,      \* useState<string | null>(null); null is <<>>
    hoveredTractData,  \* useState<any>(null): the GEOID of the data shown
    hoverCall          \* per call of handleTractHover: position and tract

hookVars == <<tractsData, geoJsonData, loading, error>>
cycleVars == <<pc, variant, countyIdx, allTracts, transformed, boundaries>>
resolverVars ==
    <<attempts1, attempts2, src1Outcome, src2Outcome, src2Counties, resolverResult>>
xformVars == <<rawIn, xformOut, xformDone>>
geomVars == <<coordIn, coordOut, geomIn, geomOut, coordDone, geomDone>>
statsVars == <<statsResult, anyCountyOk>>
cacheVars == <<cacheMap, now, ticks, askedExpiry, lastGet>>
refreshVars == <<cyc, started, tractCall, setCount>>
liveVars == <<silent>>
waterVars == <<waterIn, waterOut, waterDone>>
normVars == <<normIn, normOut, normDone>>
filterVars == <<filterIn, variables, filterOut, filterDone>>
sortVars == <<panelVersion, sortColumn, sortDirection, lastClick>>
selectVars == <<selectedTracts, renderedTracts>>
hoverVars == <<loadingTract, hoveredTractData, hoverCall>>
pageVars == <<selectVars, hoverVars>>
otherVars == <<normVars, filterVars, sortVars, pageVars>>
harnessVars == <<cacheVars, refreshVars, liveVars, waterVars, otherVars>>
vars ==
    <<hookVars, cycleVars, resolverVars, statsVars, xformVars, geomVars,
      harnessVars>>

-----------------------------------------------------------------------------
(* JavaScript string helpers *)

Undefined == <<>>

Truthy(s) == s # <<>>

\* a || b
OrElse(a, b) == IF Truthy(a) THEN a ELSE b

Min(a, b) == IF a < b THEN a ELSE b
Max(a, b) == IF a > b THEN a ELSE b
Abs(x) == IF x < 0 THEN -x ELSE x

\* s.substring(from, to), 0-based, end exclusive, indices clamped
Substring(s, from, to) ==
    LET f == Min(Max(from, 0), Len(s))
        t == Min(Max(to, 0), Len(s))
    IN  SubSeq(s, Min(f, t) + 1, Max(f, t))

\* s.substring(from)
SubstringFrom(s, from) == Substring(s, from, Len(s))

\* s.replace(/\s+/g, '')
StripWs(s) == SelectSeq(s, LAMBDA c : c # " ")

\* s.padEnd(n, c) and s.padStart(n, c) for a one-character pad
PadEnd(s, n, c) == s \o [i \in 1..Max(n - Len(s), 0) |-> c]
PadStart(s, n, c) == [i \in 1..Max(n - Len(s), 0) |-> c] \o s

\* s.replace(/^0+/, '')
RECURSIVE StripLeadingZeros(_)
StripLeadingZeros(s) ==
    IF s # <<>> /\ Head(s) = "0" THEN StripLeadingZeros(Tail(s)) ELSE s

LowerOf(c) ==
    CASE c = "W" -> "w" [] c = "A" -> "a" [] c = "T" -> "t" [] c = "E" -> "e"
      [] c = "R" -> "r" [] c = "M" -> "m" [] c = "I" -> "i" [] c = "N" -> "n"
      [] c = "O" -> "o" [] c = "C" -> "c" [] OTHER -> c

\* a comparison that keeps the letter case
KeepCase(s) == s

\* s.toLowerCase()
ToLowerCase(s) == [i \in 1..Len(s) |-> LowerOf(s[i])]

\* the template string `Tract ${x}`
TractLabel(x) == <<"T", "r", "a", "c", "t", " ">> \o x

\* s.includes(sub)
Includes(s, sub) ==
    \E i \in 0..(Len(s) - Len(sub)) : SubSeq(s, i + 1, i + Len(sub)) = sub

-----------------------------------------------------------------------------
(* config/censusConfig.ts: variables and derived metrics *)

\* keys of CENSUS_CONFIG.VARIABLES; a raw record is keyed by these (the
\* variable codes B01001_001E, ... are a one-to-one renaming of them)
VariableKeys ==
    {"totalPopulation", "totalHousingUnits", "noCarHouseholds",
     "noCarHouseholdsRenter", "medianHouseholdIncome",
     "publicTransitCommuters", "totalCommuters", "populationUnder18",
     "populationUnder18Female", "population65Plus", "population65PlusFemale",
     "disabledPopulation", "highSchoolGraduate", "bachelorsDegree",
     "ownerOccupied", "renterOccupied"}

SENTINEL_6 == -666666666
SENTINEL_9 == -999999999

\* truthiness of an optional number: undefined and 0 are falsy
NumTruthy(v) == v # <<>> /\ v[1] # 0

\* parseInt(v || 'd') for an optional integer v
ParseIntOr(v, d) == IF NumTruthy(v) THEN v[1] ELSE d

\* x.toFixed(1) for x = num / den * 100, den > 0, as a number of tenths
\* (rounded half away from zero on the exact quotient)
RoundDiv(n, d) ==
    IF n >= 0 THEN (2 * n + d) \div (2 * d) ELSE -((2 * (-n) + d) \div (2 * d))

ToFixed1(num, den) == [scaled |-> RoundDiv(num * 1000, den), dec |-> 1]
ToFixed0(num, den) == [scaled |-> RoundDiv(num * 100, den), dec |-> 0]

\* the string literal '0'
StrZero == [scaled |-> 0, dec |-> 0]

\* carFreePercent counting the owners' households only
carFreePercentOwnersOnly(data) ==
    LET noCar == ParseIntOr(data.noCarHouseholds, 0)
        total == ParseIntOr(data.totalHousingUnits, 1)
    IN  IF total > 0 THEN ToFixed1(noCar, total) ELSE StrZero

carFreePercentFormula(data) ==
    LET noCar == ParseIntOr(data.noCarHouseholds, 0)
                 + ParseIntOr(data.noCarHouseholdsRenter, 0)
        total == ParseIntOr(data.totalHousingUnits, 1)
    IN  IF total > 0 THEN ToFixed1(noCar, total) ELSE StrZero

transitScoreFormula(data) ==
    LET transit == ParseIntOr(data.publicTransitCommuters, 0)
        total == ParseIntOr(data.totalCommuters, 1)
    IN  IF total > 0 THEN ToFixed0(transit, total) ELSE StrZero

vulnerablePercentFormula(data) ==
    LET under18 == ParseIntOr(data.populationUnder18, 0)
                   + ParseIntOr(data.populationUnder18Female, 0)
        over65 == ParseIntOr(data.population65Plus, 0)
                  + ParseIntOr(data.population65PlusFemale, 0)
        disabled == ParseIntOr(data.disabledPopulation, 0)
        total == ParseIntOr(data.totalPopulation, 1)
    IN  IF total > 0 THEN ToFixed1(under18 + over65 + disabled, total)
        ELSE StrZero

-----------------------------------------------------------------------------
(* services/censusApi.ts: transformTractData *)

\* isValidCensusValue on an optional number
isValidCensusValue(value) ==
    /\ value # <<>>
    /\ ~(value[1] < 0 /\ (value[1] <= SENTINEL_6 \/ value[1] <= SENTINEL_9))

\* parseFloat / parseInt of a toFixed string: its value as an integer number
\* of 10^-dec units; StrWhole is the value rounded toward +infinity, which
\* is <= a whole number exactly when the value is
StrWhole(str) ==
    IF str.dec = 0 THEN str.scaled ELSE -((-str.scaled) \div 10)

\* isValidCensusValue on a toFixed string (never empty, never NaN)
isValidCensusString(str) == isValidCensusValue(<<StrWhole(str)>>)

\* value of a toFixed string in tenths (parseFloat)
ParseFloatTenths(str) == IF str.dec = 1 THEN str.scaled ELSE str.scaled * 10

\* parseInt of a toFixed string: the digits before the point
ParseIntStr(str) ==
    IF str.dec = 0 THEN str.scaled
    ELSE IF str.scaled >= 0 THEN str.scaled \div 10
         ELSE -((-str.scaled) \div 10)

\* the record after "Add raw variables": every key is set, to the raw value
\* or to undefined
RawVariables(rawData) ==
    [k \in VariableKeys |->
        IF rawData.vals[k] # <<>> /\ isValidCensusValue(rawData.vals[k])
        THEN rawData.vals[k] ELSE Undefined]

transformTractData(rawData) ==
    LET t == RawVariables(rawData)
        car == carFreePercentFormula(t)
        tra == transitScoreFormula(t)
        vul == vulnerablePercentFormula(t)
    IN  [GEOID |-> rawData.GEOID,
         NAME |-> OrElse(rawData.NAME, TractLabel(rawData.tract)),
         state |-> rawData.state,
         county |-> rawData.county,
         tract |-> rawData.tract,
         vals |-> t,
         carFreePercent |-> <<car>>,
         transitScore |-> <<tra>>,
         vulnerablePercent |-> <<vul>>,
         income |-> IF NumTruthy(t.medianHouseholdIncome)
                       /\ isValidCensusValue(t.medianHouseholdIncome)
                    THEN <<t.medianHouseholdIncome[1]>> ELSE Undefined,
         \* carfree and vulnerable are numbers of tenths of a percent
         carfree |-> IF isValidCensusString(car)
                     THEN <<ParseFloatTenths(car)>> ELSE Undefined,
         transit |-> IF isValidCensusString(tra)
                     THEN <<ParseIntStr(tra)>> ELSE Undefined,
         vulnerable |-> IF isValidCensusString(vul)
                        THEN <<ParseFloatTenths(vul)>> ELSE Undefined,
         crashes |-> 0]

-----------------------------------------------------------------------------
(* components/MapView: isTractMatchingFilters *)

\* the switch on variable.id: the display field, else the field it was
\* derived from, else undefined; Number() of a toFixed string is its value
\* in the unit of the display field
TractValue(tractData, id) ==
    IF tractData.stats = <<>> THEN Undefined
    ELSE LET t == tractData.stats[1]
         IN  CASE id = "carfree" ->
                    IF t.carfree # <<>> THEN t.carfree
                    ELSE IF t.carFreePercent # <<>>
                    THEN <<ParseFloatTenths(t.carFreePercent[1])>>
                    ELSE Undefined
               [] id = "income" ->
                    IF t.income # <<>> THEN t.income
                    ELSE t.vals["medianHouseholdIncome"]
               [] id = "transit" ->
                    IF t.transit # <<>> THEN t.transit
                    ELSE IF t.transitScore # <<>>
                    THEN <<ParseIntStr(t.transitScore[1])>>
                    ELSE Undefined
               [] id = "vulnerable" ->
                    IF t.vulnerable # <<>> THEN t.vulnerable
                    ELSE IF t.vulnerablePercent # <<>>
                    THEN <<ParseFloatTenths(t.vulnerablePercent[1])>>
                    ELSE Undefined

KnownVariables == {"carfree", "income", "transit", "vulnerable"}

\* the callback of variables.every
VariableMatches(tractData, variable) ==
    IF variable.id \notin KnownVariables THEN TRUE
    ELSE LET tractValue == TractValue(tractData, variable.id)
         IN  /\ tractValue # Undefined
             /\ tractValue[1] >= variable.value[1]
             /\ tractValue[1] <= variable.value[2]

isTractMatchingFilters(tractData, vs) ==
    IF tractData.isNull THEN FALSE
    ELSE IF Len(vs) = 0 THEN TRUE
    ELSE \A i \in 1..Len(vs) : VariableMatches(tractData, vs[i])

-----------------------------------------------------------------------------
(* components/ResultsPanel: handleSort, in its two versions *)

\* the two versions of the panel that sort: if/else chain, and ternary
PanelVersions == {"cycle", "toggle"}

\* handleSort that leaves the column set when the direction is cleared
handleSortKeepColumn(version, column, col, dir) ==
    IF col = column
    THEN [sortColumn |-> col,
          sortDirection |-> IF dir = "asc" THEN "desc"
                            ELSE IF dir = "desc" THEN "null" ELSE "asc"]
    ELSE [sortColumn |-> column, sortDirection |-> "asc"]

\* [sortColumn, sortDirection] after handleSort(column) run in a render that
\* saw sortColumn = col and sortDirection = dir
handleSort(version, column, col, dir) ==
    IF col = column
    THEN IF version = "cycle"
         THEN IF dir = "asc" THEN [sortColumn |-> col, sortDirection |-> "desc"]
              ELSE IF dir = "desc"
              THEN [sortColumn |-> "null", sortDirection |-> "null"]
              ELSE [sortColumn |-> col, sortDirection |-> "asc"]
         ELSE [sortColumn |-> IF dir = "desc" THEN "null" ELSE col,
               sortDirection |-> IF dir = "asc" THEN "desc"
                                 ELSE IF dir = "desc" THEN "null" ELSE "asc"]
    ELSE [sortColumn |-> column, sortDirection |-> "asc"]

-----------------------------------------------------------------------------
(* services/geojsonService.ts: validateAndFixGeometry *)

\* nycBounds of fetchNYCTractsGeoJSON, in millidegrees
nycBounds ==
    [minLon |-> -74500, maxLon |-> -73500, minLat |-> 40400, maxLat |-> 41000]

\* a geometry is [type, rings, polys]: `coordinates` is rings for a Polygon
\* and polys for a MultiPolygon; type "null" is a missing geometry
NullGeometry == [type |-> "null", rings |-> <<>>, polys |-> <<>>]
Polygon(rings) == [type |-> "Polygon", rings |-> rings, polys |-> <<>>]
MultiPolygon(polys) == [type |-> "MultiPolygon", rings |-> <<>>, polys |-> polys]

Coordinates(geometry) ==
    IF geometry.type = "Polygon" THEN geometry.rings ELSE geometry.polys

\* fixCoordinates on a leaf pair <<lon, lat>>
fixCoordinates(coords, bounds) ==
    LET lon == coords[1]
        lat == coords[2]
    IN  IF (lon > -10000 /\ lon < 10000 /\ lat < -70000)
           \/ (Abs(lon) > 180000 \/ Abs(lat) > 90000)
        THEN <<lat, lon>>
        ELSE <<Max(bounds.minLon, Min(bounds.maxLon, lon)),
               Max(bounds.minLat, Min(bounds.maxLat, lat))>>

FixRing(ring, bounds) ==
    [i \in 1..Len(ring) |-> fixCoordinates(ring[i], bounds)]

FixRings(rings, bounds) ==
    [i \in 1..Len(rings) |-> FixRing(rings[i], bounds)]

validateAndFixGeometry(geometry, bounds) ==
    IF geometry.type = "null" THEN geometry
    ELSE IF geometry.type = "Polygon"
         THEN [geometry EXCEPT !.rings = FixRings(geometry.rings, bounds)]
         ELSE [geometry EXCEPT !.polys =
                  [i \in 1..Len(geometry.polys) |->
                      FixRings(geometry.polys[i], bounds)]]

-----------------------------------------------------------------------------
(* services/geojsonService.ts: water-tract classifier *)

\* nycCounties of fetchNYCTractsGeoJSON
nycCounties ==
    {<<"0", "0", "5">>, <<"0", "4", "7">>, <<"0", "6", "1">>,
     <<"0", "8", "1">>, <<"0", "8", "5">>}

DigitChars == {"0", "1", "2", "3", "4", "5", "6", "7", "8", "9"}

RECURSIVE DigitPrefix(_)
DigitPrefix(s) ==
    IF s # <<>> /\ Head(s) \in DigitChars
    THEN <<Head(s)>> \o DigitPrefix(Tail(s)) ELSE <<>>

RECURSIVE StripTrailingZeros(_)
StripTrailingZeros(s) ==
    IF s # <<>> /\ s[Len(s)] = "0"
    THEN StripTrailingZeros(SubSeq(s, 1, Len(s) - 1)) ELSE s

\* parseFloat(`0.${suffix}`) as its significant fraction digits:
\* <<>> is 0, <<"0","1">> is 0.01, <<"9","9">> is 0.99
FractionOf(suffix) == StripTrailingZeros(DigitPrefix(suffix))

\* tractDecimal === 0 || 0.01 || 0.98 || 0.99
IsWaterSuffix(suffix) ==
    FractionOf(suffix) \in {<<>>, <<"0", "1">>, <<"9", "8">>, <<"9", "9">>}

\* The shoelace sum of calculatePolygonArea,
\*   sum over i < length - 1 of  c[i][0] * c[i+1][1] - c[i+1][0] * c[i][1],
\* evaluated on the offsets d[i] = c[i] - c[0]: the sum equals the same sum
\* over d plus c[0][0] * d[n][1] - c[0][1] * d[n][0] for the last point n
\* (zero for a closed ring), and no intermediate product leaves the
\* checker's integer range
RECURSIVE LocalShoelace(_, _)
LocalShoelace(coords, i) ==
    IF i >= Len(coords) THEN 0
    ELSE LET dxa == coords[i][1] - coords[1][1]
             dya == coords[i][2] - coords[1][2]
             dxb == coords[i + 1][1] - coords[1][1]
             dyb == coords[i + 1][2] - coords[1][2]
         IN  dxa * dyb - dxb * dya + LocalShoelace(coords, i + 1)

ShoelaceSum(coords) ==
    LET n == Len(coords)
    IN  LocalShoelace(coords, 1)
        + coords[1][1] * (coords[n][2] - coords[1][2])
        - coords[1][2] * (coords[n][1] - coords[1][1])

\* calculatePolygonArea, doubled (the halving is folded into the threshold):
\* an undefined or short ring has area 0
TwiceArea(coords) == IF Len(coords) < 3 THEN 0 ELSE Abs(ShoelaceSum(coords))

\* coordinates[0] of a polygon: its outer ring, undefined when there is none
OuterRing(rings) == IF rings = <<>> THEN <<>> ELSE rings[1]

RECURSIVE SumOuterAreas(_, _)
SumOuterAreas(polys, i) ==
    IF i > Len(polys) THEN 0
    ELSE TwiceArea(OuterRing(polys[i])) + SumOuterAreas(polys, i + 1)

\* the `area` variable of isWaterTract, doubled
FeatureTwiceArea(geometry) ==
    IF geometry.type = "Polygon" THEN TwiceArea(OuterRing(geometry.rings))
    ELSE IF geometry.type = "MultiPolygon" THEN SumOuterAreas(geometry.polys, 1)
    ELSE 0

\* area < 0.00001 square degrees, i.e. 10 * 10^-6, on the doubled area
AreaBelowThreshold(geometry) == FeatureTwiceArea(geometry) < 20

NameSaysWater(name) ==
    \/ Includes(name, <<"w", "a", "t", "e", "r">>)
    \/ Includes(name, <<"m", "a", "r", "i", "n", "e">>)
    \/ Includes(name, <<"o", "c", "e", "a", "n">>)

\* the tract-code path shared by the classifiers, given the identifier read
CodeSaysWater(geoid, geometry) ==
    /\ IsWaterSuffix(SubstringFrom(SubstringFrom(geoid, 5), 3))
    /\ geometry.type # "null"
    /\ AreaBelowThreshold(geometry)

\* isWaterTract of the NYC Open Data version (reads GEOID || geoid)
isWaterTract(feature) ==
    LET geoid == OrElse(feature.props.GEOID, feature.props.geoid)
        name == ToLowerCase(OrElse(feature.props.NAME, feature.props.ntaname))
    IN  \/ Len(geoid) >= 11 /\ CodeSaysWater(geoid, feature.geometry)
        \/ NameSaysWater(name)

\* isWaterTract of the TIGERweb version (reads GEOID, no length test)
isWaterTractTiger(feature) ==
    LET geoid == feature.props.GEOID
        name == ToLowerCase(feature.props.NAME)
    IN  \/ CodeSaysWater(geoid, feature.geometry)
        \/ NameSaysWater(name)

\* isWaterFallback (reads GEOID || GEOID20 and NAME || NAME20)
isWaterFallback(feature) ==
    LET geoid == OrElse(feature.props.GEOID, feature.props.GEOID20)
        name == ToLowerCase(OrElse(feature.props.NAME, feature.props.NAME20))
    IN  \/ Len(geoid) >= 11 /\ CodeSaysWater(geoid, feature.geometry)
        \/ NameSaysWater(name)

-----------------------------------------------------------------------------
(* services/geojsonService.ts: schema normalization of each source *)

\* borocodeMap[String(borocode)] || ''
borocodeMap(b) ==
    CASE b = <<"1">> -> <<"0", "6", "1">>
      [] b = <<"2">> -> <<"0", "0", "5">>
      [] b = <<"3">> -> <<"0", "4", "7">>
      [] b = <<"4">> -> <<"0", "8", "1">>
      [] b = <<"5">> -> <<"0", "8", "5">>
      [] OTHER -> <<>>

\* geometry && geometry.coordinates && geometry.coordinates.length > 0
HasCoordinates(geometry) ==
    geometry.type # "null" /\ Len(Coordinates(geometry)) > 0

\* "Ensure GEOID is exactly 11 characters" of the Open Data and local-file
\* versions: the value left in properties.GEOID, given the stripped identifier
PadOrTruncate(geoid, oldGEOID) ==
    IF Len(geoid) >= 11 THEN Substring(geoid, 0, 11)
    ELSE IF Len(geoid) > 0 THEN PadEnd(geoid, 11, "0")
    ELSE oldGEOID

\* "Extract county from GEOID", else from the borough code
CountyOf(GEOID, props) ==
    IF Truthy(GEOID) /\ Len(GEOID) >= 11 THEN Substring(GEOID, 2, 5)
    ELSE IF Truthy(props.borocode) THEN borocodeMap(props.borocode)
    ELSE props.county

\* ---- NYC Open Data version, primary source: filter, map, filter
OpenDataKeep(feature) ==
    LET geoid == OrElse(feature.props.GEOID, feature.props.geoid)
        geoidStr == StripWs(geoid)
    IN  /\ Truthy(geoid)
        /\ Len(geoidStr) >= 11 => Substring(geoidStr, 2, 5) \in nycCounties
        /\ feature.geometry.type # "null"
        /\ ~isWaterTract(feature)

OpenDataNormalize(feature) ==
    LET p == feature.props
        geoid == StripWs(OrElse(p.GEOID, p.geoid))
        GEOID == PadOrTruncate(geoid, p.GEOID)
    IN  [feature EXCEPT
            !.props = [p EXCEPT
                !.GEOID = GEOID,
                !.county = CountyOf(GEOID, p),
                !.NAME = IF Truthy(p.NAME) THEN p.NAME
                         ELSE OrElse(p.ctlabel, OrElse(p.ntaname,
                                  TractLabel(SubstringFrom(GEOID, 5)))),
                !.state = <<"3", "6">>],
            !.geometry = validateAndFixGeometry(feature.geometry, nycBounds)]

OpenDataFinal(feature) ==
    Truthy(feature.props.GEOID) /\ HasCoordinates(feature.geometry)

\* ---- TIGERweb version, primary source
TigerKeep(feature) ==
    LET county == PadStart(feature.props.COUNTY, 3, "0")
    IN  /\ county \in nycCounties
        /\ Truthy(feature.props.GEOID)
        /\ feature.geometry.type # "null"
        /\ ~isWaterTractTiger(feature)

TigerNormalize(feature) ==
    LET p == feature.props
        stripped == StripWs(p.GEOID)
        geoid == IF ~Truthy(stripped) \/ Len(stripped) < 11
                 THEN OrElse(p.STATE_, <<"3", "6">>)
                      \o PadStart(p.COUNTY, 3, "0")
                      \o PadStart(OrElse(p.TRACT, p.TRACTCE), 6, "0")
                 ELSE stripped
    IN  [feature EXCEPT
            !.props = [p EXCEPT
                !.GEOID = Substring(geoid, 0, 11),
                !.NAME = IF Truthy(p.NAME) THEN p.NAME
                         ELSE OrElse(p.NAMELSAD, TractLabel(p.TRACT)),
                !.county = PadStart(p.COUNTY, 3, "0"),
                !.state = OrElse(p.STATE_, <<"3", "6">>)],
            !.geometry = validateAndFixGeometry(feature.geometry, nycBounds)]

TigerFinal(feature) == HasCoordinates(feature.geometry)

\* ---- local-file version, primary source: map, filter (no county or
\* water filter)
LocalNormalize(feature) ==
    LET p == feature.props
        geoid == StripWs(OrElse(p.GEOID, p.geoid))
        GEOID == IF Len(geoid) > 0 THEN PadOrTruncate(geoid, p.GEOID)
                 ELSE IF Truthy(p.ct2020) /\ Truthy(p.borocode)
                      THEN Substring(<<"3", "6">>
                               \o PadStart(p.borocode, 3, "0")
                               \o PadStart(StripLeadingZeros(p.ct2020), 6, "0"),
                               0, 11)
                      ELSE p.GEOID
    IN  [feature EXCEPT
            !.props = [p EXCEPT
                !.GEOID = GEOID,
                !.county = CountyOf(GEOID, p),
                !.NAME = IF Truthy(p.NAME) THEN p.NAME
                         ELSE OrElse(p.ctlabel, OrElse(p.ntaname,
                                  TractLabel(OrElse(SubstringFrom(GEOID, 5),
                                                    p.ct2020)))),
                !.state = <<"3", "6">>],
            !.geometry = validateAndFixGeometry(feature.geometry, nycBounds)]

LocalFinal(feature) == HasCoordinates(feature.geometry)

\* ---- fallback source (the same code in the three versions)
FallbackCounty(feature) ==
    PadStart(OrElse(feature.props.COUNTY_FIPS, feature.props.COUNTY), 3, "0")

FallbackKeep(feature, counties) ==
    /\ FallbackCounty(feature) \in counties
    /\ ~isWaterFallback(feature)

FallbackNormalize(feature) ==
    LET p == feature.props
        built == OrElse(p.STATE_, <<"3", "6">>)
                 \o FallbackCounty(feature)
                 \o PadStart(OrElse(p.TRACT, p.TRACTCE), 6, "0")
        geoid == Substring(StripWs(OrElse(p.GEOID, OrElse(p.GEOID20, built))),
                           0, 11)
    IN  [feature EXCEPT
            !.props = [p EXCEPT
                !.GEOID = geoid,
                !.NAME = OrElse(p.NAME, OrElse(p.NAME20, TractLabel(p.TRACT))),
                !.county = FallbackCounty(feature)]]

-----------------------------------------------------------------------------
(* services/geojsonService.ts: fetchNYCTractsGeoJSON, source by source *)

\* the deployed version of the service
Variants == {"opendata", "tigerweb", "localfile"}

\* a response is [kind, features]: kind "throw" (fetch rejects), "nonok"
\* (response.ok is false), "badjson" (response.json() rejects) or "ok"
AnyBad(features) == \E i \in 1..Len(features) : features[i].bad

PrimaryNormalized(v, features) ==
    IF v = "opendata"
    THEN LET kept == SelectSeq(features, OpenDataKeep)
             mapped == [i \in 1..Len(kept) |-> OpenDataNormalize(kept[i])]
         IN  SelectSeq(mapped, OpenDataFinal)
    ELSE IF v = "tigerweb"
    THEN LET kept == SelectSeq(features, TigerKeep)
             mapped == [i \in 1..Len(kept) |-> TigerNormalize(kept[i])]
         IN  SelectSeq(mapped, TigerFinal)
    ELSE LET mapped == [i \in 1..Len(features) |-> LocalNormalize(features[i])]
         IN  SelectSeq(mapped, LocalFinal)

\* PrimaryBody without the `else throw`: an empty answer is returned as it is
PrimaryBodyNoEmptyThrow(v, response) ==
    IF response.kind # "ok" THEN [kind |-> "throw", features |-> <<>>]
    ELSE IF AnyBad(response.features) THEN [kind |-> "throw", features |-> <<>>]
    ELSE [kind |-> "data", features |-> PrimaryNormalized(v, response.features)]

\* the inner try block of the primary source: "data" when it reaches
\* `return data`, "throw" when anything in it throws
PrimaryBody(v, response) ==
    IF response.kind # "ok" THEN [kind |-> "throw", features |-> <<>>]
    ELSE IF Len(response.features) = 0 THEN [kind |-> "throw", features |-> <<>>]
    ELSE IF AnyBad(response.features) THEN [kind |-> "throw", features |-> <<>>]
    ELSE [kind |-> "data", features |-> PrimaryNormalized(v, response.features)]

\* why the primary source ended as it did
PrimaryOutcome(v, response) ==
    IF response.kind \in {"throw", "badjson"} THEN "threw"
    ELSE IF response.kind = "nonok" THEN "nonok"
    ELSE IF Len(response.features) = 0 THEN "empty"
    ELSE IF AnyBad(response.features) THEN "threw"
    ELSE "returned"

\* the inner try block of the fallback source: "data" when it reaches
\* `return data`, "none" when it falls out of the ifs, "throw" when it throws
FallbackBody(response, counties) ==
    IF response.kind \in {"throw", "badjson"}
    THEN [kind |-> "throw", features |-> <<>>]
    ELSE IF response.kind = "nonok" \/ Len(response.features) = 0
    THEN [kind |-> "none", features |-> <<>>]
    ELSE IF AnyBad(response.features) THEN [kind |-> "throw", features |-> <<>>]
    ELSE LET kept == SelectSeq(response.features,
                               LAMBDA f : FallbackKeep(f, counties))
         IN  [kind |-> "data",
              features |-> [i \in 1..Len(kept) |-> FallbackNormalize(kept[i])]]

\* why the fallback source ended as it did
FallbackOutcome(response) ==
    IF response.kind \in {"throw", "badjson"} THEN "threw"
    ELSE IF response.kind = "nonok" THEN "nonok"
    ELSE IF Len(response.features) = 0 THEN "empty"
    ELSE IF AnyBad(response.features) THEN "threw"
    ELSE "returned"

\* catch (fetchError): a primary source that threw hands over to the fallback
NeedsFallback(body) == body.kind = "throw"

\* the county list the fallback request and its filter are built from
FallbackCounties == nycCounties

\* AfterFallback without the catch blocks: a throw in the fallback escapes
AfterFallbackUncaught(body) ==
    IF body.kind = "data" THEN [result |-> "data", features |-> body.features]
    ELSE IF body.kind = "throw" THEN [result |-> "reject", features |-> <<>>]
    ELSE [result |-> "null", features |-> <<>>]

\* what fetchNYCTractsGeoJSON resolves to after the fallback's try/catch:
\* catch (fallbackError) swallows a throw, then `return null`
AfterFallback(body) ==
    IF body.kind = "data" THEN [result |-> "data", features |-> body.features]
    ELSE [result |-> "null", features |-> <<>>]

-----------------------------------------------------------------------------
(* services/censusApi.ts: parseCensusResponse *)

\* one data row, already keyed by its header: GEOID is built from the parts
ParseRow(row) ==
    LET GEOID == IF Truthy(row.state)
                 THEN row.state \o PadStart(row.county, 3, "0")
                      \o PadStart(row.tract, 6, "0")
                 ELSE Undefined
    IN  [GEOID |-> GEOID,
         NAME |-> IF ~Truthy(row.NAME) /\ Truthy(GEOID) /\ Truthy(row.tract)
                  THEN TractLabel(row.tract) ELSE row.NAME,
         state |-> row.state, county |-> row.county, tract |-> row.tract,
         vals |-> row.vals]

parseCensusResponse(rows) == [i \in 1..Len(rows) |-> ParseRow(rows[i])]

-----------------------------------------------------------------------------
(* hooks/useCensusData.ts: the merge step of loadData *)

\* a lookup built by overwriting: index of the last match at or after i, or 0
FindLastIndex(list, geoid, i) ==
    LET hits == {j \in i..Len(list) : list[j].GEOID = geoid}
    IN  IF hits = {} THEN 0 ELSE CHOOSE j \in hits : \A k \in hits : k <= j

\* transformed.find(t => t.GEOID === geoid): index of the first match, or 0
RECURSIVE FindIndex(_, _, _)
FindIndex(list, geoid, i) ==
    IF i > Len(list) THEN 0
    ELSE IF list[i].GEOID = geoid THEN i
    ELSE FindIndex(list, geoid, i + 1)

\* { ...feature.properties, ...matchingData }: the record's own keys win;
\* its remaining keys are carried in `stats`
MergeFeature(feature, list) ==
    LET i == FindIndex(list, feature.props.GEOID, 1)
    IN  IF i = 0 THEN feature
        ELSE [feature EXCEPT
                 !.props = [feature.props EXCEPT
                     !.GEOID = list[i].GEOID,
                     !.NAME = list[i].NAME,
                     !.state = list[i].state,
                     !.county = list[i].county],
                 !.stats = <<list[i]>>]

\* an inner join: features without a matching record are dropped
mergeFeaturesInnerJoin(features, list) ==
    LET kept == SelectSeq(features,
                    LAMBDA f : FindIndex(list, f.props.GEOID, 1) # 0)
    IN  [i \in 1..Len(kept) |-> MergeFeature(kept[i], list)]

mergeFeatures(features, list) ==
    [i \in 1..Len(features) |-> MergeFeature(features[i], list)]

-----------------------------------------------------------------------------
(* services/geojsonService.ts: generateMockGeoJSON *)

DigitValue(c) ==
    CASE c = "0" -> 0 [] c = "1" -> 1 [] c = "2" -> 2 [] c = "3" -> 3
      [] c = "4" -> 4 [] c = "5" -> 5 [] c = "6" -> 6 [] c = "7" -> 7
      [] c = "8" -> 8 [] c = "9" -> 9

\* parseInt(s, 10) of a string of digits
RECURSIVE ParseIntDigits(_)
ParseIntDigits(s) ==
    IF s = <<>> THEN 0
    ELSE 10 * ParseIntDigits(SubSeq(s, 1, Len(s) - 1)) + DigitValue(s[Len(s)])

\* cos(m * PI / 4) and sin(m * PI / 4) in thousandths
Cos8(m) == <<1000, 707, 0, -707, -1000, -707, 0, 707>>[(m % 8) + 1]
Sin8(m) == Cos8(m + 6)

\* clamp into the generator's own bounds, in millidegrees
MockClampLon(x) == Max(-74260, Min(-73700, x))
MockClampLat(y) == Max(40470, Min(40920, y))

\* the grid anchor [baseLon, baseLat] of a tract, in millidegrees (the
\* default anchor 40.7128 is taken as 40713)
MockBase(countyCode, countyIndex, index) ==
    CASE countyCode = <<"0", "6", "1">> ->
            <<-73980 + (countyIndex % 25) * 6, 40760 - (countyIndex \div 25) * 6>>
      [] countyCode = <<"0", "4", "7">> ->
            <<-74050 + (countyIndex % 35) * 5, 40560 - (countyIndex \div 35) * 5>>
      [] countyCode = <<"0", "8", "1">> ->
            <<-73950 + (countyIndex % 40) * 4, 40630 - (countyIndex \div 40) * 4>>
      [] countyCode = <<"0", "0", "5">> ->
            <<-73920 + (countyIndex % 30) * 5, 40800 - (countyIndex \div 30) * 5>>
      [] countyCode = <<"0", "8", "5">> ->
            <<-74250 + (countyIndex % 20) * 6, 40500 - (countyIndex \div 20) * 6>>
      [] OTHER ->
            <<-74006 + (index % 50) * 8, 40713 - (index \div 50) * 8>>

\* the ten-point ring: anchor, eight points around it, anchor; `size` is in
\* half millidegrees and every vertex is rounded to the millidegree
MockRing(base, tractIndex) ==
    LET size2 == 6 + (tractIndex % 4) * 3
        k == tractIndex % 8
    IN  <<base>>
        \o [i \in 1..8 |->
               <<base[1] + RoundDiv(size2 * Cos8(k + i), 2000),
                 base[2] + RoundDiv(size2 * Sin8(k + i), 2000)>>]
        \o <<base>>

MockCountyCode(tract) ==
    PadStart(OrElse(tract.county, <<"0", "6", "1">>), 3, "0")

\* the feature generated for tractData[index + 1] (index is 0-based); the
\* spread `...tract` comes last, so GEOID, NAME, county and state are the
\* record's, and its remaining keys are carried in `stats`
MockFeature(tractData, index) ==
    LET tract == tractData[index + 1]
        countyCode == MockCountyCode(tract)
        tractIndex == IF Truthy(tract.tract) THEN ParseIntDigits(tract.tract)
                      ELSE index
        countyIndex == Cardinality({i \in 1..index :
                           PadStart(tractData[i].county, 3, "0") = countyCode})
        raw == MockBase(countyCode, countyIndex, index)
        base == <<MockClampLon(raw[1]), MockClampLat(raw[2])>>
    IN  [bad |-> FALSE,
         props |-> [GEOID |-> tract.GEOID, geoid |-> <<>>, GEOID20 |-> <<>>,
                    STATE_ |-> <<>>, COUNTY |-> <<>>, COUNTY_FIPS |-> <<>>,
                    TRACT |-> <<>>, TRACTCE |-> <<>>, borocode |-> <<>>,
                    ct2020 |-> <<>>,
                    NAME |-> tract.NAME,
                    NAME20 |-> <<>>, NAMELSAD |-> <<>>, ntaname |-> <<>>,
                    ctlabel |-> <<>>,
                    county |-> tract.county, state |-> tract.state],
         geometry |-> Polygon(<<MockRing(base, tractIndex)>>),
         stats |-> <<tract>>]

\* generateMockGeoJSON drawing a shape for the first record only
generateMockGeoJSONFirstOnly(tractData) ==
    [i \in 1..Min(1, Len(tractData)) |-> MockFeature(tractData, i - 1)]

generateMockGeoJSON(tractData) ==
    [i \in 1..Len(tractData) |-> MockFeature(tractData, i - 1)]

-----------------------------------------------------------------------------
(* Bounded inputs *)

\* longest statistic list one load cycle accumulates
MaxStats == 2
\* longest feature list one boundary response carries
MaxFeatures == 2

Digits(ds) == [i \in 1..Len(ds) |-> <<"0", "1", "2", "3", "4", "5", "6", "7", "8", "9">>[ds[i] + 1]]

\* ---- statistic rows
BaseVals ==
    [k \in VariableKeys |->
        CASE k = "totalPopulation" -> <<2000>>
          [] k = "totalHousingUnits" -> <<1000>>
          [] k = "noCarHouseholds" -> <<100>>
          [] k = "noCarHouseholdsRenter" -> <<50>>
          [] k = "medianHouseholdIncome" -> <<65000>>
          [] k = "publicTransitCommuters" -> <<300>>
          [] k = "totalCommuters" -> <<800>>
          [] OTHER -> <<100>>]

Row(county, tract, vals) ==
    [state |-> <<"3", "6">>, county |-> county, tract |-> tract,
     NAME |-> <<>>, vals |-> vals]

StatRows ==
    {Row(Digits(<<0, 6, 1>>), Digits(<<0, 0, 0, 1, 0, 0>>), BaseVals),
     Row(Digits(<<0, 6, 1>>), Digits(<<0, 0, 0, 1, 0, 0>>),
         [BaseVals EXCEPT !["totalHousingUnits"] = <<0>>,
                          !["medianHouseholdIncome"] = <<SENTINEL_6>>]),
     Row(Digits(<<0, 4, 7>>), Digits(<<0, 0, 0, 2, 0, 0>>),
         [BaseVals EXCEPT !["noCarHouseholds"] = <<>>,
                          !["totalCommuters"] = <<0>>]),
     Row(Digits(<<0, 4, 7>>), Digits(<<0, 0, 0, 2, 0, 0>>),
         [BaseVals EXCEPT !["totalHousingUnits"] = <<3>>,
                          !["noCarHouseholds"] = <<1>>,
                          !["noCarHouseholdsRenter"] = <<1>>])}

SeqsUpTo(S, n) == UNION {[1..m -> S] : m \in 0..n}

\* ---- inputs of the transformTractData harness: one family of fields
\* varies at a time over RawVals, the others keep their base value
RawVals == {<<>>, <<SENTINEL_6>>, <<0>>, <<50>>, <<100>>, <<1000>>}

CarInputs ==
    {[BaseVals EXCEPT !["totalHousingUnits"] = a, !["noCarHouseholds"] = b,
                      !["noCarHouseholdsRenter"] = c] :
        a \in RawVals, b \in RawVals, c \in RawVals}

TransitInputs ==
    {[BaseVals EXCEPT !["totalCommuters"] = a, !["publicTransitCommuters"] = b] :
        a \in RawVals, b \in RawVals}

VulnerableParts ==
    {"populationUnder18", "populationUnder18Female", "population65Plus",
     "population65PlusFemale", "disabledPopulation"}

VulnerableInputs ==
    {[BaseVals EXCEPT !["totalPopulation"] = a, ![k] = b] :
        a \in RawVals, b \in RawVals, k \in VulnerableParts}

IncomeInputs ==
    {[BaseVals EXCEPT !["medianHouseholdIncome"] = a] :
        a \in RawVals \cup {<<SENTINEL_9>>, <<-222222222>>, <<-5>>}}

RawInputs ==
    {ParseRow(Row(Digits(<<0, 6, 1>>), Digits(<<0, 0, 0, 1, 0, 0>>), v)) :
        v \in CarInputs \cup TransitInputs \cup VulnerableInputs \cup IncomeInputs}

\* ---- inputs of the geometry harness, in millidegrees
CoordVals ==
    {-200000, -80000, -74600, -74000, -73900, -5000, 0, 5000, 40710, 41500,
     95000, 185000}


\* ---- rings, in millidegrees
\* a closed square of 10 x 10 millidegrees in lower Manhattan
BigRing ==
    <<<<-74005, 40712>>, <<-73995, 40712>>, <<-73995, 40722>>,
      <<-74005, 40722>>, <<-74005, 40712>>>>
\* a closed triangle of area 0.000001 square degrees
TinyRing ==
    <<<<-74000, 40700>>, <<-73998, 40700>>, <<-74000, 40701>>,
      <<-74000, 40700>>>>
\* a closed triangle of area 0.01 square degrees
WideRing ==
    <<<<-74100, 40600>>, <<-73900, 40600>>, <<-74100, 40700>>,
      <<-74100, 40600>>>>
\* a ring delivered as [lat, lon], and one with a longitude beyond 180
SwappedRing ==
    <<<<40710, -74000>>, <<40710, -73990>>, <<40720, -73990>>,
      <<40710, -74000>>>>
OutlierRing ==
    <<<<-74005, 40712>>, <<185000, 40712>>, <<-74005, 40722>>,
      <<-74005, 40712>>>>

BaseProps ==
    [GEOID |-> <<>>, geoid |-> <<>>, GEOID20 |-> <<>>, STATE_ |-> <<>>,
     COUNTY |-> <<>>, COUNTY_FIPS |-> <<>>, TRACT |-> <<>>, TRACTCE |-> <<>>,
     borocode |-> <<>>, ct2020 |-> <<>>, NAME |-> <<>>, NAME20 |-> <<>>,
     NAMELSAD |-> <<>>, ntaname |-> <<>>, ctlabel |-> <<>>,
     county |-> <<>>, state |-> <<>>]

Feature(props, geometry) ==
    [bad |-> FALSE, props |-> props, geometry |-> geometry, stats |-> <<>>]

\* a null entry of features[]: reading its properties throws
BadFeature == [Feature(BaseProps, NullGeometry) EXCEPT !.bad = TRUE]

\* ---- boundary features a provider may deliver, in the order of delivery
FeatureUniverse ==
    <<  \* NYC Open Data schema, Manhattan tract 1
        Feature([BaseProps EXCEPT !.geoid = Digits(<<3, 6, 0, 6, 1, 0, 0, 0, 1, 0, 0>>),
                                  !.borocode = <<"1">>, !.ctlabel = <<"1">>,
                                  !.ct2020 = Digits(<<0, 0, 0, 1, 0, 0>>),
                                  !.COUNTY_FIPS = Digits(<<0, 6, 1>>)],
                Polygon(<<BigRing>>)),
        \* TIGERweb schema, Brooklyn tract 2
        Feature([BaseProps EXCEPT !.GEOID = Digits(<<3, 6, 0, 4, 7, 0, 0, 0, 2, 0, 0>>),
                                  !.STATE_ = <<"3", "6">>,
                                  !.COUNTY = Digits(<<0, 4, 7>>),
                                  !.NAME = <<"2">>],
                Polygon(<<WideRing>>)),
        \* an incomplete identifier of a non-NYC county, axes swapped
        Feature([BaseProps EXCEPT !.GEOID = Digits(<<3, 6, 1, 1, 9>>),
                                  !.COUNTY = Digits(<<0, 6, 1>>),
                                  !.TRACT = Digits(<<0, 0, 0, 3, 0, 0>>)],
                Polygon(<<SwappedRing>>)),
        \* no geometry
        Feature([BaseProps EXCEPT !.GEOID = Digits(<<3, 6, 0, 6, 1, 0, 0, 0, 4, 0, 0>>),
                                  !.COUNTY = Digits(<<0, 6, 1>>)],
                NullGeometry),
        \* empty coordinates
        Feature([BaseProps EXCEPT !.GEOID = Digits(<<3, 6, 0, 8, 1, 0, 0, 0, 5, 0, 0>>),
                                  !.COUNTY = Digits(<<0, 8, 1>>)],
                Polygon(<<>>)),
        \* a water tract by code and area (suffix 990, area 0.000001)
        Feature([BaseProps EXCEPT !.GEOID = Digits(<<3, 6, 0, 8, 5, 0, 0, 0, 9, 9, 0>>),
                                  !.COUNTY = Digits(<<0, 8, 5>>)],
                Polygon(<<TinyRing>>)),
        \* a water tract by name
        Feature([BaseProps EXCEPT !.GEOID = Digits(<<3, 6, 0, 0, 5, 0, 0, 0, 6, 0, 0>>),
                                  !.COUNTY = Digits(<<0, 0, 5>>),
                                  !.NAME = <<"O", "c", "e", "a", "n">>],
                MultiPolygon(<<<<BigRing>>>>)),
        \* a tract of Westchester County, a longitude out of range
        Feature([BaseProps EXCEPT !.GEOID = Digits(<<3, 6, 1, 1, 9, 0, 0, 0, 7, 0, 0>>),
                                  !.COUNTY = Digits(<<1, 1, 9>>)],
                Polygon(<<OutlierRing>>)),
        \* no identifier at all, only borough and tract codes
        Feature([BaseProps EXCEPT !.borocode = <<"2">>,
                                  !.ct2020 = Digits(<<0, 0, 0, 8, 0, 0>>),
                                  !.COUNTY_FIPS = Digits(<<0, 0, 5>>),
                                  !.TRACTCE = Digits(<<0, 0, 0, 8, 0, 0>>)],
                Polygon(<<BigRing>>)),
        BadFeature >>

Response(kind, features) == [kind |-> kind, features |-> features]

\* the features of FeatureUniverse at the positions of `picked`, in order
FeaturesAt(picked) ==
    LET positions == SelectSeq([i \in 1..Len(FeatureUniverse) |-> i],
                               LAMBDA i : i \in picked)
    IN  [k \in 1..Len(positions) |-> FeatureUniverse[positions[k]]]

\* a boundary response: a failure, or up to MaxFeatures distinct features
Responses ==
    {Response(k, <<>>) : k \in {"throw", "nonok", "badjson"}}
    \cup {Response("ok", FeaturesAt(picked)) :
            picked \in {ps \in SUBSET (1..Len(FeatureUniverse)) :
                            Cardinality(ps) <= MaxFeatures}}

\* a statistics response: rows are the parsed body of an "ok" answer
StatResponses(room) ==
    {Response(k, <<>>) : k \in {"throw", "nonok", "badjson"}}
    \cup {Response("ok", rows) : rows \in SeqsUpTo(StatRows, room)}

-----------------------------------------------------------------------------
(* State *)

\* geoJsonData: null, or a FeatureCollection
NullGeoJson == [isNull |-> TRUE, features |-> <<>>]
FeatureCollection(features) == [isNull |-> FALSE, features |-> features]

\* Object.values(CENSUS_CONFIG.NYC_COUNTIES), in fetch order
countyCodes ==
    <<Digits(<<0, 6, 1>>), Digits(<<0, 4, 7>>), Digits(<<0, 8, 1>>),
      Digits(<<0, 0, 5>>), Digits(<<0, 8, 5>>)>>

HookInit ==
    /\ tractsData = <<>>
    /\ geoJsonData = NullGeoJson
    /\ loading = TRUE
    /\ error = "null"

CycleIdle(p) ==
    /\ pc = p
    /\ countyIdx = 0
    /\ allTracts = <<>>
    /\ transformed = <<>>
    /\ boundaries = <<>>

ResolverIdle ==
    /\ attempts1 = 0
    /\ attempts2 = 0
    /\ src1Outcome = "none"
    /\ src2Outcome = "none"
    /\ src2Counties = {}
    /\ resolverResult = "pending"
    /\ statsResult = "pending"
    /\ anyCountyOk = FALSE

XformIdle ==
    /\ rawIn = ParseRow(Row(<<>>, <<>>, BaseVals))
    /\ xformOut = transformTractData(rawIn)
    /\ xformDone = FALSE

GeomIdle ==
    /\ coordIn = <<0, 0>>
    /\ coordOut = <<0, 0>>
    /\ geomIn = NullGeometry
    /\ geomOut = NullGeometry
    /\ coordDone = FALSE
    /\ geomDone = FALSE

\* ---- CensusApiCache
\* Map.get(key) of a key never set
NoEntry == [present |-> FALSE, data |-> <<>>, timestamp |-> 0, expiry |-> 0]

\* the keys fetchNYCTractsData and fetchTractData use, for one year
CacheKeys == {"nyc-tracts", "tract"}

\* private defaultExpiry = 60 * 60 * 1000
defaultExpiry == 60 * 60 * 1000

\* get(key): the value returned and the map it leaves
cacheGet(map, key, t) ==
    IF ~map[key].present
    THEN [hit |-> FALSE, data |-> <<>>, map |-> map]
    ELSE IF t > map[key].timestamp + map[key].expiry
    THEN [hit |-> FALSE, data |-> <<>>, map |-> [map EXCEPT ![key] = NoEntry]]
    ELSE [hit |-> TRUE, data |-> map[key].data, map |-> map]

\* set(key, data, expiry?): expiry || this.defaultExpiry
cacheSet(map, key, data, expiry, t) ==
    [map EXCEPT ![key] =
        [present |-> TRUE, data |-> data, timestamp |-> t,
         expiry |-> IF NumTruthy(expiry) THEN expiry[1] ELSE defaultExpiry]]

NoGet == [key |-> "none", at |-> 0, found |-> NoEntry, asked |-> <<>>,
          hit |-> FALSE, data |-> <<>>, evicted |-> FALSE]

\* const apiCache = new CensusApiCache(), at page load
CacheIdle ==
    /\ cacheMap = [k \in CacheKeys |-> NoEntry]
    /\ now = 0
    /\ ticks = 0
    /\ askedExpiry = [k \in CacheKeys |-> <<>>]
    /\ lastGet = NoGet

\* ---- overlapping calls
\* most calls of loadData, and of fetchTractData, in one behaviour
MaxCycles == 2
MaxTractCalls == 2

\* a call of loadData not yet made; out* is what the call hands to the
\* setters when it ends
IdleCycle ==
    [pc |-> "idle", countyIdx |-> 0, allTracts |-> <<>>, transformed |-> <<>>,
     outTracts |-> <<>>, outGeo |-> NullGeoJson, outError |-> "null"]

RefreshIdle ==
    /\ cyc = [c \in 1..MaxCycles |-> IdleCycle]
    /\ started = 0
    /\ tractCall = [k \in 1..MaxTractCalls |-> "idle"]
    /\ setCount = [k \in CacheKeys |-> 0]

\* ---- providers
\* the three places a load cycle awaits a fetch
Providers == {"statistics", "primary", "fallback"}

LiveIdle == silent = {}

\* ---- water classifiers
NoVerdict ==
    [v1 |-> FALSE, v2 |-> FALSE, fallback |-> FALSE,
     kept1 |-> FALSE, kept2 |-> FALSE, keptFallback |-> FALSE]

WaterIdle ==
    /\ waterIn = Feature(BaseProps, NullGeometry)
    /\ waterOut = NoVerdict
    /\ waterDone = FALSE

\* ---- identifier normalizers
\* GEOID and county of a feature
IdOf(feature) == [GEOID |-> feature.props.GEOID, county |-> feature.props.county]

NoIds ==
    LET none == [GEOID |-> <<>>, county |-> <<>>]
    IN  [openData |-> <<none, none>>, localFile |-> <<none, none>>,
         fallback |-> <<none, none>>]

NormIdle ==
    /\ normIn = Feature(BaseProps, NullGeometry)
    /\ normOut = NoIds
    /\ normDone = FALSE

\* ---- pages/index.tsx: the four sliders, in the units of the values they
\* are compared with (carfree and vulnerable in tenths of a percent)
Variable(id, min, max) == [id |-> id, value |-> <<min, max>>]

DefaultVariables ==
    <<Variable("carfree", 0, 1000), Variable("income", 0, 200000),
      Variable("transit", 0, 100), Variable("vulnerable", 0, 1000)>>

\* feature.properties: isNull for a missing property bag, stats the merged
\* statistic record if there is one
TractData(isNull, stats) == [isNull |-> isNull, stats |-> stats]

FilterIdle ==
    /\ filterIn = TractData(TRUE, <<>>)
    /\ variables = DefaultVariables
    /\ filterOut = FALSE
    /\ filterDone = FALSE

\* ---- components/ResultsPanel.tsx: sorting
SortColumns == {"name", "carfree", "income", "transit", "vulnerable"}

NoClick == [column |-> "null", sortColumn |-> "null", sortDirection |-> "null"]

SortIdle ==
    /\ panelVersion = "cycle"
    /\ sortColumn = "null"
    /\ sortDirection = "null"
    /\ lastClick = NoClick

\* ---- pages/index.tsx: selection
SelectIdle ==
    /\ selectedTracts = <<>>
    /\ renderedTracts = <<>>

\* ---- components/MapView: hover
\* most calls of handleTractHover in one behaviour
MaxHovers == 3

IdleHover == [pc |-> "idle", geoid |-> <<>>]

HoverIdle ==
    /\ loadingTract = Undefined
    /\ hoveredTractData = Undefined
    /\ hoverCall = [k \in 1..MaxHovers |-> IdleHover]

PageIdle == SelectIdle /\ HoverIdle

OtherIdle == NormIdle /\ FilterIdle /\ SortIdle /\ PageIdle

HarnessIdle == CacheIdle /\ RefreshIdle /\ LiveIdle /\ WaterIdle /\ OtherIdle

\* the hook as mounted, before its effect runs loadData
Init ==
    /\ HookInit
    /\ CycleIdle("mount")
    /\ variant \in Variants
    /\ ResolverIdle
    /\ XformIdle
    /\ GeomIdle
    /\ HarnessIdle

-----------------------------------------------------------------------------
(* hooks/useCensusData.ts: loadData, with the calls it awaits *)

\* the catch and finally blocks of loadData
LoadFailed ==
    /\ error' = "error"
    /\ tractsData' = <<>>
    /\ geoJsonData' = NullGeoJson
    /\ loading' = FALSE
    /\ pc' = "done"

\* useEffect -> loadData: setLoading, setError, then fetchNYCTractsData up to
\* its first fetch
LoadStart ==
    /\ pc = "mount"
    /\ loading' = TRUE
    /\ error' = "null"
    /\ countyIdx' = 1
    /\ allTracts' = <<>>
    /\ pc' = "stats"
    /\ UNCHANGED <<tractsData, geoJsonData, variant, transformed, boundaries,
                   resolverVars, statsVars, xformVars, geomVars, harnessVars>>

\* allTracts after the answer of one county: a non-OK answer is skipped
TractsAfter(response) ==
    IF response.kind = "ok"
    THEN allTracts \o parseCensusResponse(response.features)
    ELSE allTracts

\* a county's fetch or its json() rejects: fetchNYCTractsData rethrows and
\* loadData's catch runs
StatsFail ==
    /\ pc = "stats"
    /\ \E response \in StatResponses(0) :
          /\ response.kind \in {"throw", "badjson"}
          /\ LoadFailed
    /\ statsResult' = "rejected"
    /\ UNCHANGED <<variant, countyIdx, allTracts, transformed, boundaries,
                   resolverVars, anyCountyOk, xformVars, geomVars, harnessVars>>

\* a county answers and the loop goes on to the next county
StatsNext ==
    /\ pc = "stats"
    /\ countyIdx < Len(countyCodes)
    /\ \E response \in StatResponses(MaxStats - Len(allTracts)) :
          /\ response.kind \in {"nonok", "ok"}
          /\ allTracts' = TractsAfter(response)
          /\ anyCountyOk' = (anyCountyOk \/ response.kind = "ok")
    /\ countyIdx' = countyIdx + 1
    /\ UNCHANGED <<hookVars, pc, variant, transformed, boundaries,
                   resolverVars, statsResult, xformVars, geomVars, harnessVars>>

\* the last county answers: fetchNYCTractsData returns, loadData transforms
\* the records, sets tractsData and calls fetchNYCTractsGeoJSON, which
\* issues the fetch of its primary source
StatsDone ==
    /\ pc = "stats"
    /\ countyIdx = Len(countyCodes)
    /\ \E response \in StatResponses(MaxStats - Len(allTracts)) :
          /\ response.kind \in {"nonok", "ok"}
          /\ allTracts' = TractsAfter(response)
          /\ anyCountyOk' = (anyCountyOk \/ response.kind = "ok")
    /\ statsResult' = "resolved"
    /\ transformed' = [i \in 1..Len(allTracts') |-> transformTractData(allTracts'[i])]
    /\ tractsData' = transformed'
    /\ attempts1' = attempts1 + 1
    /\ pc' = "geo1"
    /\ UNCHANGED <<geoJsonData, loading, error, variant, countyIdx, boundaries,
                   attempts2, src1Outcome, src2Outcome, src2Counties,
                   resolverResult, xformVars, geomVars, harnessVars>>

\* loadData after `await fetchNYCTractsGeoJSON()`: mock boundaries when the
\* resolver gave none, else the merge; then setGeoJsonData and finally
LoadFinish(result, features) ==
    IF result = "reject" THEN LoadFailed /\ boundaries' = <<>>
    ELSE /\ boundaries' = features
         /\ geoJsonData' =
               IF result = "null" \/ Len(features) = 0
               THEN FeatureCollection(generateMockGeoJSON(transformed))
               ELSE FeatureCollection(mergeFeatures(features, transformed))
         /\ loading' = FALSE
         /\ pc' = "done"
         /\ UNCHANGED <<tractsData, error>>

\* the primary source answers and its try block returns the data
Geo1Return ==
    /\ pc = "geo1"
    /\ \E response \in Responses :
          LET body == PrimaryBody(variant, response)
          IN  /\ ~NeedsFallback(body)
              /\ src1Outcome' = PrimaryOutcome(variant, response)
              /\ resolverResult' = "data"
              /\ LoadFinish("data", body.features)
    /\ UNCHANGED <<variant, countyIdx, allTracts, transformed, attempts1,
                   attempts2, src2Outcome, src2Counties, statsVars, xformVars, geomVars, harnessVars>>

\* the primary source fails: catch (fetchError) issues the fallback fetch
Geo1Fallback ==
    /\ pc = "geo1"
    /\ \E response \in Responses :
          LET body == PrimaryBody(variant, response)
          IN  /\ NeedsFallback(body)
              /\ src1Outcome' = PrimaryOutcome(variant, response)
    /\ attempts2' = attempts2 + 1
    /\ src2Counties' = FallbackCounties
    /\ pc' = "geo2"
    /\ UNCHANGED <<hookVars, variant, countyIdx, allTracts, transformed,
                   boundaries, attempts1, src2Outcome, resolverResult,
                   statsVars, xformVars, geomVars, harnessVars>>

\* the fallback source answers: the resolver returns its data or null
Geo2Respond ==
    /\ pc = "geo2"
    /\ \E response \in Responses :
          LET r == AfterFallback(FallbackBody(response, src2Counties))
          IN  /\ src2Outcome' = FallbackOutcome(response)
              /\ resolverResult' = r.result
              /\ LoadFinish(r.result, r.features)
    /\ UNCHANGED <<variant, countyIdx, allTracts, transformed, attempts1,
                   attempts2, src1Outcome, src2Counties, statsVars, xformVars, geomVars, harnessVars>>

Next ==
    \/ LoadStart
    \/ StatsFail
    \/ StatsNext
    \/ StatsDone
    \/ Geo1Return
    \/ Geo1Fallback
    \/ Geo2Respond

Spec == Init /\ [][Next]_vars

-----------------------------------------------------------------------------
(* transformTractData applied to one parsed row *)

InitTransform ==
    /\ HookInit
    /\ CycleIdle("off")
    /\ variant = "opendata"
    /\ ResolverIdle
    /\ GeomIdle
    /\ HarnessIdle
    /\ rawIn \in RawInputs
    /\ xformOut = transformTractData(ParseRow(Row(<<>>, <<>>, BaseVals)))
    /\ xformDone = FALSE

TransformStep ==
    /\ ~xformDone
    /\ xformOut' = transformTractData(rawIn)
    /\ xformDone' = TRUE
    /\ UNCHANGED <<hookVars, cycleVars, resolverVars, statsVars, rawIn,
                   geomVars, harnessVars>>

NextTransform == TransformStep

SpecTransform == InitTransform /\ [][NextTransform]_vars

-----------------------------------------------------------------------------
(* validateAndFixGeometry applied to one pair and to one geometry *)

GeometryInputs ==
    {NullGeometry, Polygon(<<>>), Polygon(<<BigRing>>), Polygon(<<SwappedRing>>),
     Polygon(<<OutlierRing>>), MultiPolygon(<<<<BigRing>>, <<OutlierRing>>>>)}

InitGeometry ==
    /\ HookInit
    /\ CycleIdle("off")
    /\ variant = "opendata"
    /\ ResolverIdle
    /\ XformIdle
    /\ HarnessIdle
    /\ coordIn \in CoordVals \X CoordVals
    /\ coordOut = <<0, 0>>
    /\ geomIn \in GeometryInputs
    /\ geomOut = NullGeometry
    /\ coordDone = FALSE
    /\ geomDone = FALSE

FixCoordinatesStep ==
    /\ ~coordDone
    /\ coordOut' = fixCoordinates(coordIn, nycBounds)
    /\ coordDone' = TRUE
    /\ UNCHANGED <<hookVars, cycleVars, resolverVars, statsVars, xformVars,
                   coordIn, geomIn, geomOut, geomDone, harnessVars>>

ValidateGeometryStep ==
    /\ ~geomDone
    /\ geomOut' = validateAndFixGeometry(geomIn, nycBounds)
    /\ geomDone' = TRUE
    /\ UNCHANGED <<hookVars, cycleVars, resolverVars, statsVars, xformVars,
                   coordIn, coordOut, geomIn, coordDone, harnessVars>>

NextGeometry == FixCoordinatesStep \/ ValidateGeometryStep

SpecGeometry == InitGeometry /\ [][NextGeometry]_vars


-----------------------------------------------------------------------------
(* CensusApiCache: set and get under a clock *)

\* how often the clock advances in one behaviour
MaxTicks == 2

\* amounts by which the clock advances, in milliseconds
ClockSteps == {1, 999, 1001}

\* the expiry argument of set: omitted, or a number of milliseconds
ExpiryArgs == {<<>>, <<0>>, <<1000>>}

\* values stored: the parsed rows of one response
CacheData ==
    {<<ParseRow(Row(Digits(<<0, 6, 1>>), Digits(<<0, 0, 0, 1, 0, 0>>), BaseVals))>>}

InitCache ==
    /\ HookInit
    /\ CycleIdle("off")
    /\ variant = "opendata"
    /\ ResolverIdle
    /\ XformIdle
    /\ GeomIdle
    /\ HarnessIdle

CacheSetStep ==
    /\ \E key \in CacheKeys, data \in CacheData, expiry \in ExpiryArgs :
          /\ cacheMap' = cacheSet(cacheMap, key, data, expiry, now)
          /\ askedExpiry' = [askedExpiry EXCEPT ![key] = expiry]
    /\ UNCHANGED <<hookVars, cycleVars, resolverVars, statsVars, xformVars,
                   geomVars, now, ticks, lastGet, refreshVars, liveVars,
                   waterVars, otherVars>>

CacheGetStep ==
    /\ \E key \in CacheKeys :
          LET r == cacheGet(cacheMap, key, now)
          IN  /\ cacheMap' = r.map
              /\ lastGet' = [key |-> key, at |-> now, found |-> cacheMap[key],
                             asked |-> askedExpiry[key], hit |-> r.hit,
                             data |-> r.data,
                             evicted |-> ~r.map[key].present]
    /\ UNCHANGED <<hookVars, cycleVars, resolverVars, statsVars, xformVars,
                   geomVars, now, ticks, askedExpiry, refreshVars, liveVars,
                   waterVars, otherVars>>

TickStep ==
    /\ ticks < MaxTicks
    /\ \E d \in ClockSteps : now' = now + d
    /\ ticks' = ticks + 1
    /\ UNCHANGED <<hookVars, cycleVars, resolverVars, statsVars, xformVars,
                   geomVars, cacheMap, askedExpiry, lastGet, refreshVars, liveVars,
                   waterVars, otherVars>>

NextCache == CacheSetStep \/ CacheGetStep \/ TickStep

SpecCache == InitCache /\ [][NextCache]_vars

-----------------------------------------------------------------------------
(* loadData called again while a call is pending (refreshData), and      *)
(* fetchTractData called twice; both share apiCache                       *)

\* answers of one county in this specification: only the first county has
\* tracts, at most one per answer
RefreshStatResponses(idx) ==
    {Response(k, <<>>) : k \in {"throw", "nonok"}}
    \cup {Response("ok", rows) :
            rows \in IF idx = 1
                      THEN {<<>>, <<Row(Digits(<<0, 6, 1>>),
                                        Digits(<<0, 0, 0, 1, 0, 0>>), BaseVals)>>}
                      ELSE {<<>>}}

\* answers of a boundary source in this specification
RefreshResponses ==
    {Response("throw", <<>>), Response("ok", <<FeatureUniverse[1]>>)}

InitRefresh ==
    /\ HookInit
    /\ CycleIdle("off")
    /\ variant = "opendata"
    /\ ResolverIdle
    /\ XformIdle
    /\ GeomIdle
    /\ HarnessIdle

\* loadData after fetchNYCTractsData resolved with rows: transform,
\* setTractsData, call fetchNYCTractsGeoJSON
AfterStats(c, rows) ==
    LET t == [i \in 1..Len(rows) |-> transformTractData(rows[i])]
    IN  /\ tractsData' = t
        /\ cyc' = [cyc EXCEPT ![c] = [@ EXCEPT !.pc = "geo1", !.allTracts = rows,
                                               !.transformed = t]]

\* refreshData / the mount effect: loadData runs up to its first pending
\* fetch; a cached list is returned without a fetch
RLoadStart ==
    /\ started < MaxCycles
    /\ started' = started + 1
    /\ loading' = TRUE
    /\ error' = "null"
    /\ LET c == started + 1
           r == cacheGet(cacheMap, "nyc-tracts", now)
       IN  /\ cacheMap' = r.map
           /\ IF r.hit
              THEN AfterStats(c, r.data)
              ELSE /\ cyc' = [cyc EXCEPT ![c] = [@ EXCEPT !.pc = "stats",
                                                          !.countyIdx = 1]]
                   /\ UNCHANGED tractsData
    /\ UNCHANGED <<geoJsonData, cycleVars, resolverVars, statsVars, xformVars,
                   geomVars, liveVars, waterVars, otherVars, now, ticks, askedExpiry, lastGet, tractCall,
                   setCount>>

\* the catch and finally blocks of loadData, for call c
RLoadFailed(c) ==
    /\ error' = "error"
    /\ tractsData' = <<>>
    /\ geoJsonData' = NullGeoJson
    /\ loading' = FALSE
    /\ cyc' = [cyc EXCEPT ![c] = [@ EXCEPT !.pc = "done", !.outTracts = <<>>,
                                           !.outGeo = NullGeoJson,
                                           !.outError = "error"]]

RStatsFail(c) ==
    /\ cyc[c].pc = "stats"
    /\ \E response \in RefreshStatResponses(cyc[c].countyIdx) :
          response.kind = "throw"
    /\ RLoadFailed(c)
    /\ UNCHANGED <<cycleVars, resolverVars, statsVars, xformVars, geomVars, liveVars, waterVars, otherVars,
                   cacheVars, started, tractCall, setCount>>

RStatsNext(c) ==
    /\ cyc[c].pc = "stats"
    /\ cyc[c].countyIdx < Len(countyCodes)
    /\ \E response \in RefreshStatResponses(cyc[c].countyIdx) :
          /\ response.kind \in {"nonok", "ok"}
          /\ cyc' = [cyc EXCEPT ![c] =
                [@ EXCEPT !.countyIdx = @ + 1,
                          !.allTracts =
                              IF response.kind = "ok"
                              THEN @ \o parseCensusResponse(response.features)
                              ELSE @]]
    /\ UNCHANGED <<hookVars, cycleVars, resolverVars, statsVars, xformVars,
                   geomVars, liveVars, waterVars, otherVars, cacheVars, started, tractCall, setCount>>

\* the last county answers: apiCache.set, return, and loadData goes on
RStatsDone(c) ==
    /\ cyc[c].pc = "stats"
    /\ cyc[c].countyIdx = Len(countyCodes)
    /\ \E response \in RefreshStatResponses(cyc[c].countyIdx) :
          /\ response.kind \in {"nonok", "ok"}
          /\ LET rows == IF response.kind = "ok"
                         THEN cyc[c].allTracts
                              \o parseCensusResponse(response.features)
                         ELSE cyc[c].allTracts
             IN  /\ cacheMap' = cacheSet(cacheMap, "nyc-tracts", rows, <<>>, now)
                 /\ AfterStats(c, rows)
    /\ askedExpiry' = [askedExpiry EXCEPT !["nyc-tracts"] = <<>>]
    /\ setCount' = [setCount EXCEPT !["nyc-tracts"] = @ + 1]
    /\ UNCHANGED <<geoJsonData, loading, error, cycleVars, resolverVars,
                   statsVars, xformVars, geomVars, liveVars, waterVars, otherVars, now, ticks, lastGet,
                   started, tractCall>>

\* loadData of call c after `await fetchNYCTractsGeoJSON()`
RLoadFinish(c, result, features) ==
    LET geo == IF result = "null" \/ Len(features) = 0
               THEN FeatureCollection(generateMockGeoJSON(cyc[c].transformed))
               ELSE FeatureCollection(mergeFeatures(features, cyc[c].transformed))
    IN  /\ geoJsonData' = geo
        /\ loading' = FALSE
        /\ cyc' = [cyc EXCEPT ![c] = [@ EXCEPT !.pc = "done",
                                               !.outTracts = cyc[c].transformed,
                                               !.outGeo = geo,
                                               !.outError = "null"]]
        /\ UNCHANGED <<tractsData, error>>

RGeo1Return(c) ==
    /\ cyc[c].pc = "geo1"
    /\ \E response \in RefreshResponses :
          LET body == PrimaryBody(variant, response)
          IN  /\ ~NeedsFallback(body)
              /\ RLoadFinish(c, "data", body.features)
    /\ UNCHANGED <<cycleVars, resolverVars, statsVars, xformVars, geomVars, liveVars, waterVars, otherVars,
                   cacheVars, started, tractCall, setCount>>

RGeo1Fallback(c) ==
    /\ cyc[c].pc = "geo1"
    /\ \E response \in RefreshResponses :
          NeedsFallback(PrimaryBody(variant, response))
    /\ cyc' = [cyc EXCEPT ![c] = [@ EXCEPT !.pc = "geo2"]]
    /\ UNCHANGED <<hookVars, cycleVars, resolverVars, statsVars, xformVars,
                   geomVars, liveVars, waterVars, otherVars, cacheVars, started, tractCall, setCount>>

RGeo2Respond(c) ==
    /\ cyc[c].pc = "geo2"
    /\ \E response \in RefreshResponses :
          LET r == AfterFallback(FallbackBody(response, FallbackCounties))
          IN  RLoadFinish(c, r.result, r.features)
    /\ UNCHANGED <<cycleVars, resolverVars, statsVars, xformVars, geomVars, liveVars, waterVars, otherVars,
                   cacheVars, started, tractCall, setCount>>

\* fetchTractData up to its fetch: a cached, non-empty list is answered
\* without a fetch
TractStart(k) ==
    /\ tractCall[k] = "idle"
    /\ \A j \in 1..(k - 1) : tractCall[j] # "idle"
    /\ LET r == cacheGet(cacheMap, "tract", now)
       IN  /\ cacheMap' = r.map
           /\ tractCall' = [tractCall EXCEPT ![k] =
                 IF r.hit /\ Len(r.data) > 0 THEN "done" ELSE "fetching"]
    /\ UNCHANGED <<hookVars, cycleVars, resolverVars, statsVars, xformVars,
                   geomVars, liveVars, waterVars, otherVars, now, ticks, askedExpiry, lastGet, cyc, started,
                   setCount>>

\* the tract's fetch answers: a non-empty parsed body is cached for 30 minutes
TractRespond(k) ==
    /\ tractCall[k] = "fetching"
    /\ tractCall' = [tractCall EXCEPT ![k] = "done"]
    /\ \E response \in RefreshStatResponses(1) :
          LET parsed == parseCensusResponse(response.features)
          IN  IF response.kind = "ok" /\ Len(parsed) > 0
              THEN /\ cacheMap' = cacheSet(cacheMap, "tract", parsed,
                                           <<30 * 60 * 1000>>, now)
                   /\ askedExpiry' = [askedExpiry EXCEPT
                                         !["tract"] = <<30 * 60 * 1000>>]
                   /\ setCount' = [setCount EXCEPT !["tract"] = @ + 1]
              ELSE UNCHANGED <<cacheMap, askedExpiry, setCount>>
    /\ UNCHANGED <<hookVars, cycleVars, resolverVars, statsVars, xformVars,
                   geomVars, liveVars, waterVars, otherVars, now, ticks, lastGet, cyc, started>>

NextRefresh ==
    \/ RLoadStart
    \/ \E c \in 1..MaxCycles :
          \/ RStatsFail(c)
          \/ RStatsNext(c)
          \/ RStatsDone(c)
          \/ RGeo1Return(c)
          \/ RGeo1Fallback(c)
          \/ RGeo2Respond(c)
    \/ \E k \in 1..MaxTractCalls :
          \/ TractStart(k)
          \/ TractRespond(k)

SpecRefresh == InitRefresh /\ [][NextRefresh]_vars

-----------------------------------------------------------------------------
(* one load cycle in which some providers never answer: `await fetch(url)` *)
(* is called without a signal or a timer, so a fetch that is not answered  *)
(* stays pending                                                           *)

InitLive ==
    /\ HookInit
    /\ CycleIdle("mount")
    /\ variant \in Variants
    /\ ResolverIdle
    /\ XformIdle
    /\ GeomIdle
    /\ CacheIdle
    /\ RefreshIdle
    /\ WaterIdle
    /\ OtherIdle
    /\ silent \in SUBSET Providers

\* the answers of a provider arrive only if it is not silent
LiveStatsFail == "statistics" \notin silent /\ StatsFail
LiveStatsNext == "statistics" \notin silent /\ StatsNext
LiveStatsDone == "statistics" \notin silent /\ StatsDone
LiveGeo1Return == "primary" \notin silent /\ Geo1Return
LiveGeo1Fallback == "primary" \notin silent /\ Geo1Fallback
LiveGeo2Respond == "fallback" \notin silent /\ Geo2Respond

NextLive ==
    \/ LoadStart
    \/ LiveStatsFail
    \/ LiveStatsNext
    \/ LiveStatsDone
    \/ LiveGeo1Return
    \/ LiveGeo1Fallback
    \/ LiveGeo2Respond

\* every step the code or a responsive provider can take is eventually taken
SpecLive == InitLive /\ [][NextLive]_vars /\ WF_vars(NextLive)

-----------------------------------------------------------------------------
(* isWaterTract of the two versions applied to one feature *)

WaterIds ==
    {<<>>,
     Digits(<<3, 6, 1, 1, 9>>),
     Digits(<<3, 6, 0, 8, 5, 0, 0>>),
     Digits(<<3, 6, 0, 8, 5, 0, 0, 0, 9, 9, 0>>),
     Digits(<<3, 6, 0, 8, 5, 0, 0, 0, 0, 1, 0>>),
     Digits(<<3, 6, 0, 8, 5, 0, 0, 0, 9, 8, 0>>),
     Digits(<<3, 6, 0, 8, 5, 0, 0, 0, 1, 0, 0>>),
     Digits(<<3, 6, 0, 8, 5, 0, 0, 0, 0, 9, 9>>),
     Digits(<<3, 6, 0, 6, 1, 0, 0, 1, 5, 0, 2>>)}

WaterNames ==
    {<<>>, <<"2">>, <<"O", "c", "e", "a", "n">>,
     <<"B", "a", "y", "W", "A", "T", "E", "R">>}

WaterGeometries ==
    {NullGeometry, Polygon(<<TinyRing>>), Polygon(<<WideRing>>),
     Polygon(<<BigRing>>), MultiPolygon(<<<<TinyRing>>, <<TinyRing>>>>),
     MultiPolygon(<<<<TinyRing>>, <<WideRing>>>>)}

InitWater ==
    /\ HookInit
    /\ CycleIdle("off")
    /\ variant = "opendata"
    /\ ResolverIdle
    /\ XformIdle
    /\ GeomIdle
    /\ CacheIdle
    /\ RefreshIdle
    /\ LiveIdle
    /\ OtherIdle
    /\ \E id \in WaterIds, name \in WaterNames, g \in WaterGeometries :
          waterIn = Feature([BaseProps EXCEPT
                                 !.GEOID = id, !.NAME = name,
                                 !.COUNTY = Digits(<<0, 8, 5>>)], g)
    /\ waterOut = NoVerdict
    /\ waterDone = FALSE

IsWaterTractStep ==
    /\ ~waterDone
    /\ waterOut' = [v1 |-> isWaterTract(waterIn),
                    v2 |-> isWaterTractTiger(waterIn),
                    fallback |-> isWaterFallback(waterIn),
                    kept1 |-> OpenDataKeep(waterIn),
                    kept2 |-> TigerKeep(waterIn),
                    keptFallback |-> FallbackKeep(waterIn, nycCounties)]
    /\ waterDone' = TRUE
    /\ UNCHANGED <<hookVars, cycleVars, resolverVars, statsVars, xformVars,
                   geomVars, cacheVars, refreshVars, liveVars, waterIn,
                   otherVars>>

NextWater == IsWaterTractStep

SpecWater == InitWater /\ [][NextWater]_vars

-----------------------------------------------------------------------------
(* the map step of each source applied once and twice to one feature *)

NormIds ==
    {<<>>,
     <<" ">>,
     Digits(<<3, 6, 0, 6, 1>>),
     Digits(<<3, 6, 0, 6, 1, 0, 0, 0, 1, 0, 0>>),
     Digits(<<3, 6, 0, 4, 7>>) \o <<" ">> \o Digits(<<0, 0, 0, 2, 0, 0>>),
     Digits(<<3, 6, 0, 8, 1, 0, 0, 0, 5, 0, 0, 7>>)}

NormFields == {"GEOID", "geoid", "GEOID20"}

NormBorocodes == {<<>>, <<"1">>, <<"2">>, <<"3">>, <<"4">>, <<"5">>}

NormTracts == {<<>>, Digits(<<0, 0, 0, 1, 0, 0>>)}

InitNormalize ==
    /\ HookInit
    /\ CycleIdle("off")
    /\ variant = "opendata"
    /\ ResolverIdle
    /\ XformIdle
    /\ GeomIdle
    /\ CacheIdle
    /\ RefreshIdle
    /\ LiveIdle
    /\ WaterIdle
    /\ FilterIdle
    /\ SortIdle
    /\ PageIdle
    /\ \E id \in NormIds, field \in NormFields, b \in NormBorocodes,
          ct \in NormTracts :
          normIn = Feature([BaseProps EXCEPT
                               ![field] = id, !.borocode = b, !.ct2020 = ct,
                               !.COUNTY = Digits(<<0, 6, 1>>),
                               !.TRACT = Digits(<<0, 0, 0, 1, 0, 0>>)],
                           Polygon(<<BigRing>>))
    /\ normOut = NoIds
    /\ normDone = FALSE

NormalizeStep ==
    /\ ~normDone
    /\ normOut' =
          [openData |->
              <<IdOf(OpenDataNormalize(normIn)),
                IdOf(OpenDataNormalize(OpenDataNormalize(normIn)))>>,
           localFile |->
              <<IdOf(LocalNormalize(normIn)),
                IdOf(LocalNormalize(LocalNormalize(normIn)))>>,
           fallback |->
              <<IdOf(FallbackNormalize(normIn)),
                IdOf(FallbackNormalize(FallbackNormalize(normIn)))>>]
    /\ normDone' = TRUE
    /\ UNCHANGED <<hookVars, cycleVars, resolverVars, statsVars, xformVars,
                   geomVars, cacheVars, refreshVars, liveVars, waterVars,
                   normIn, filterVars, sortVars, pageVars>>

NextNormalize == NormalizeStep

SpecNormalize == InitNormalize /\ [][NextNormalize]_vars

-----------------------------------------------------------------------------
(* isTractMatchingFilters applied to one property bag under one setting of *)
(* the sliders (handleVariableChange replaces the range of one slider)     *)

FilterRecords ==
    {transformTractData(ParseRow(Row(Digits(<<0, 6, 1>>),
                                     Digits(<<0, 0, 0, 1, 0, 0>>), v))) :
        v \in {BaseVals,
               [BaseVals EXCEPT !["medianHouseholdIncome"] = <<0>>],
               [BaseVals EXCEPT !["medianHouseholdIncome"] = <<>>],
               [BaseVals EXCEPT !["medianHouseholdIncome"] = <<SENTINEL_6>>],
               [BaseVals EXCEPT !["medianHouseholdIncome"] = <<200000>>],
               [BaseVals EXCEPT !["noCarHouseholds"] = <<200>>,
                                !["noCarHouseholdsRenter"] = <<0>>],
               [BaseVals EXCEPT !["publicTransitCommuters"] = <<800>>],
               [BaseVals EXCEPT !["totalPopulation"] = <<SENTINEL_6>>]}}

FilterTracts ==
    {TractData(TRUE, <<>>), TractData(FALSE, <<>>)}
    \cup {TractData(FALSE, <<r>>) : r \in FilterRecords}

\* slider ranges a user can set
SliderRanges(id) ==
    CASE id = "carfree" -> {<<0, 1000>>, <<200, 500>>}
      [] id = "income" -> {<<0, 200000>>, <<30000, 70000>>}
      [] id = "transit" -> {<<0, 100>>, <<38, 80>>}
      [] id = "vulnerable" -> {<<0, 1000>>, <<300, 1000>>}

InitFilter ==
    /\ HookInit
    /\ CycleIdle("off")
    /\ variant = "opendata"
    /\ ResolverIdle
    /\ XformIdle
    /\ GeomIdle
    /\ CacheIdle
    /\ RefreshIdle
    /\ LiveIdle
    /\ WaterIdle
    /\ NormIdle
    /\ SortIdle
    /\ PageIdle
    /\ filterIn \in FilterTracts
    /\ variables = DefaultVariables
    /\ filterOut = FALSE
    /\ filterDone = FALSE

\* handleVariableChange(id, value)
handleVariableChange ==
    /\ ~filterDone
    /\ \E i \in 1..Len(variables) :
          \E value \in SliderRanges(variables[i].id) :
             variables' = [variables EXCEPT ![i].value = value]
    /\ UNCHANGED <<hookVars, cycleVars, resolverVars, statsVars, xformVars,
                   geomVars, cacheVars, refreshVars, liveVars, waterVars,
                   normVars, filterIn, filterOut, filterDone, sortVars,
                   pageVars>>

IsTractMatchingFiltersStep ==
    /\ ~filterDone
    /\ filterOut' = isTractMatchingFilters(filterIn, variables)
    /\ filterDone' = TRUE
    /\ UNCHANGED <<hookVars, cycleVars, resolverVars, statsVars, xformVars,
                   geomVars, cacheVars, refreshVars, liveVars, waterVars,
                   normVars, filterIn, variables, sortVars, pageVars>>

NextFilter == handleVariableChange \/ IsTractMatchingFiltersStep

SpecFilter == InitFilter /\ [][NextFilter]_vars

-----------------------------------------------------------------------------
(* header clicks in ResultsPanel, each handled in the render that follows *)
(* the previous click                                                     *)

InitSort ==
    /\ HookInit
    /\ CycleIdle("off")
    /\ variant = "opendata"
    /\ ResolverIdle
    /\ XformIdle
    /\ GeomIdle
    /\ CacheIdle
    /\ RefreshIdle
    /\ LiveIdle
    /\ WaterIdle
    /\ NormIdle
    /\ FilterIdle
    /\ PageIdle
    /\ panelVersion \in PanelVersions
    /\ sortColumn = "null"
    /\ sortDirection = "null"
    /\ lastClick = NoClick

HeaderClick ==
    \E column \in SortColumns :
       LET after == handleSort(panelVersion, column, sortColumn, sortDirection)
       IN  /\ sortColumn' = after.sortColumn
           /\ sortDirection' = after.sortDirection
           /\ lastClick' = [column |-> column, sortColumn |-> sortColumn,
                            sortDirection |-> sortDirection]
           /\ UNCHANGED <<hookVars, cycleVars, resolverVars, statsVars,
                          xformVars, geomVars, cacheVars, refreshVars,
                          liveVars, waterVars, normVars, filterVars,
                          panelVersion, pageVars>>

NextSort == HeaderClick

SpecSort == InitSort /\ [][NextSort]_vars

-----------------------------------------------------------------------------
(* pages/index.tsx: handleTractSelect and handleTractRemove; a handler    *)
(* reads the selectedTracts of the render that created it, the updater of *)
(* setSelectedTracts reads the current state                               *)

\* most entries of selectedTracts in one behaviour
MaxSelected == 3

\* the tracts a click can carry; <<>> is a tract without GEOID
ClickableTracts ==
    {<<>>,
     Digits(<<3, 6, 0, 6, 1, 0, 0, 0, 1, 0, 0>>),
     Digits(<<3, 6, 0, 4, 7, 0, 0, 0, 2, 0, 0>>),
     Digits(<<3, 6, 0, 8, 5, 0, 0, 0, 9, 9, 0>>)}

InitSelect ==
    /\ HookInit
    /\ CycleIdle("off")
    /\ variant = "opendata"
    /\ ResolverIdle
    /\ XformIdle
    /\ GeomIdle
    /\ CacheIdle
    /\ RefreshIdle
    /\ LiveIdle
    /\ WaterIdle
    /\ NormIdle
    /\ FilterIdle
    /\ SortIdle
    /\ SelectIdle
    /\ HoverIdle

\* the component renders again: new handlers capture the current state
Rerender ==
    /\ renderedTracts # selectedTracts
    /\ renderedTracts' = selectedTracts
    /\ UNCHANGED <<hookVars, cycleVars, resolverVars, statsVars, xformVars,
                   geomVars, cacheVars, refreshVars, liveVars, waterVars,
                   normVars, filterVars, sortVars, selectedTracts, hoverVars>>

handleTractSelect ==
    /\ Len(selectedTracts) < MaxSelected
    /\ \E geoid \in ClickableTracts :
          /\ Truthy(geoid)
          /\ ~(\E i \in 1..Len(renderedTracts) : renderedTracts[i] = geoid)
          /\ selectedTracts' = Append(selectedTracts, geoid)
    /\ UNCHANGED <<hookVars, cycleVars, resolverVars, statsVars, xformVars,
                   geomVars, cacheVars, refreshVars, liveVars, waterVars,
                   normVars, filterVars, sortVars, renderedTracts, hoverVars>>

handleTractRemove ==
    /\ \E tractId \in ClickableTracts :
          /\ \E i \in 1..Len(selectedTracts) : selectedTracts[i] = tractId
          /\ selectedTracts' = SelectSeq(selectedTracts,
                                         LAMBDA tGeoid : tGeoid # tractId)
    /\ UNCHANGED <<hookVars, cycleVars, resolverVars, statsVars, xformVars,
                   geomVars, cacheVars, refreshVars, liveVars, waterVars,
                   normVars, filterVars, sortVars, renderedTracts, hoverVars>>

NextSelect == Rerender \/ handleTractSelect \/ handleTractRemove

SpecSelect == InitSelect /\ [][NextSelect]_vars

-----------------------------------------------------------------------------
(* components/MapView: handleTractHover, whose detail fetch is awaited    *)
(* while further hovers arrive                                            *)

\* the tracts under the pointer; <<>> is a feature without GEOID
HoverTracts ==
    {<<>>,
     Digits(<<3, 6, 0, 6, 1, 0, 0, 0, 1, 0, 0>>),
     Digits(<<3, 6, 0, 4, 7, 0, 0, 0, 2, 0, 0>>)}

InitHover ==
    /\ HookInit
    /\ CycleIdle("off")
    /\ variant = "opendata"
    /\ ResolverIdle
    /\ XformIdle
    /\ GeomIdle
    /\ CacheIdle
    /\ RefreshIdle
    /\ LiveIdle
    /\ WaterIdle
    /\ NormIdle
    /\ FilterIdle
    /\ SortIdle
    /\ SelectIdle
    /\ HoverIdle

\* handleTractHover on a feature whose properties carry totalPopulation:
\* the properties are shown, nothing is fetched
HoverKnown(k) ==
    /\ hoverCall[k].pc = "idle"
    /\ \A j \in 1..(k - 1) : hoverCall[j].pc # "idle"
    /\ \E geoid \in HoverTracts :
          /\ Truthy(geoid)
          /\ hoveredTractData' = geoid
          /\ hoverCall' = [hoverCall EXCEPT ![k] = [pc |-> "done", geoid |-> geoid]]
    /\ UNCHANGED <<hookVars, cycleVars, resolverVars, statsVars, xformVars,
                   geomVars, cacheVars, refreshVars, liveVars, waterVars,
                   normVars, filterVars, sortVars, selectVars, loadingTract>>

\* handleTractHover up to `await fetchTractData(...)`
HoverFetch(k) ==
    /\ hoverCall[k].pc = "idle"
    /\ \A j \in 1..(k - 1) : hoverCall[j].pc # "idle"
    /\ \E geoid \in HoverTracts :
          /\ Truthy(geoid)
          /\ loadingTract' = geoid
          /\ hoverCall' = [hoverCall EXCEPT
                              ![k] = [pc |-> "fetching", geoid |-> geoid]]
    /\ UNCHANGED <<hookVars, cycleVars, resolverVars, statsVars, xformVars,
                   geomVars, cacheVars, refreshVars, liveVars, waterVars,
                   normVars, filterVars, sortVars, selectVars,
                   hoveredTractData>>

\* the detail fetch settles: data, null, or a rejection caught and logged;
\* finally resets loadingTract
HoverSettle(k) ==
    /\ hoverCall[k].pc = "fetching"
    /\ \E outcome \in {"data", "none", "throw"} :
          hoveredTractData' = IF outcome = "data" THEN hoverCall[k].geoid
                              ELSE hoveredTractData
    /\ loadingTract' = Undefined
    /\ hoverCall' = [hoverCall EXCEPT ![k].pc = "done"]
    /\ UNCHANGED <<hookVars, cycleVars, resolverVars, statsVars, xformVars,
                   geomVars, cacheVars, refreshVars, liveVars, waterVars,
                   normVars, filterVars, sortVars, selectVars>>

NextHover ==
    \E k \in 1..MaxHovers :
        \/ HoverKnown(k)
        \/ HoverFetch(k)
        \/ HoverSettle(k)

SpecHover == InitHover /\ [][NextHover]_vars

-----------------------------------------------------------------------------
(* Properties of the merge step (Spec) *)

\* the load cycle ended in the merge branch: real boundaries were available
MergeDone ==
    /\ pc = "done"
    /\ resolverResult = "data"
    /\ Len(boundaries) > 0

GeoidsOf(features) == {features[i].props.GEOID : i \in 1..Len(features)}

\* indexes of the statistic records carrying an identifier
MatchesOf(geoid) == {j \in 1..Len(transformed) : transformed[j].GEOID = geoid}

\* C1: in the merge step the output has exactly as many features as the
\* boundary list, every output GEOID is an identifier of the boundary list,
\* and a boundary feature without a statistic match is kept.
C1_MergeKeepsBoundaries ==
    MergeDone =>
        /\ ~geoJsonData.isNull
        /\ Len(geoJsonData.features) = Len(boundaries)
        /\ GeoidsOf(geoJsonData.features) \subseteq GeoidsOf(boundaries)

\* a merge of two boundary features of which only one has a statistic match
C1_Witness ==
    /\ MergeDone
    /\ Len(boundaries) = 2
    /\ \E i, j \in 1..Len(geoJsonData.features) :
          /\ geoJsonData.features[i].stats = <<>>
          /\ MatchesOf(boundaries[i].props.GEOID) = {}
          /\ geoJsonData.features[j].stats # <<>>

\* C2 (as stated): with several records of the same GEOID the merge does not
\* fail and the record attached to the matching feature is the last of them
\* in list order.
C2_LastWriteWins ==
    MergeDone =>
        /\ error = "null"
        /\ \A i \in 1..Len(boundaries) :
              LET hits == MatchesOf(boundaries[i].props.GEOID)
              IN  hits # {} =>
                    \E j \in hits :
                        /\ \A k \in hits : k <= j
                        /\ geoJsonData.features[i].stats = <<transformed[j]>>

\* C2 (amended): with several records of the same GEOID the merge does not
\* fail and the record attached to the matching feature is the first of them
\* in list order.
C2_FirstMatchWins ==
    MergeDone =>
        /\ error = "null"
        /\ \A i \in 1..Len(boundaries) :
              LET hits == MatchesOf(boundaries[i].props.GEOID)
              IN  hits # {} =>
                    \E j \in hits :
                        /\ \A k \in hits : j <= k
                        /\ geoJsonData.features[i].stats = <<transformed[j]>>

\* two different records of one GEOID, and a boundary feature of that GEOID
C2_Witness ==
    /\ MergeDone
    /\ Len(transformed) = 2
    /\ transformed[1].GEOID = transformed[2].GEOID
    /\ transformed[1] # transformed[2]
    /\ \E i \in 1..Len(boundaries) :
          /\ boundaries[i].props.GEOID = transformed[1].GEOID
          /\ geoJsonData.features[i].stats = <<transformed[1]>>

-----------------------------------------------------------------------------
(* Properties of the resolver (Spec) *)

FirstSourceFailed == src1Outcome \in {"threw", "nonok", "empty"}
SecondSourceFailed == src2Outcome \in {"threw", "nonok", "empty"}

\* C3: when the first source throws, answers non-2xx or returns zero
\* features, the second source is attempted exactly once with the five-county
\* filter before the resolver gives up; it is never attempted when the first
\* source succeeded.
C3_FallbackOrdering ==
    /\ FirstSourceFailed =>
          /\ attempts2 = 1
          /\ src2Counties = nycCounties
          /\ src2Counties =
                {<<"0", "0", "5">>, <<"0", "4", "7">>, <<"0", "6", "1">>,
                 <<"0", "8", "1">>, <<"0", "8", "5">>}
    /\ src1Outcome = "returned" => attempts2 = 0
    /\ resolverResult = "null" => attempts2 = 1

\* the first source returned zero features and the second one delivered
C3_Witness ==
    /\ pc = "done"
    /\ src1Outcome = "empty"
    /\ attempts2 = 1
    /\ resolverResult = "data"
    /\ Len(boundaries) > 0

\* C4: the resolver never rejects; a failure of the first source never
\* prevents the second from being tried, and when both have failed the
\* resolver returns null and the load cycle records no error.
C4_NeverRejects ==
    /\ resolverResult # "reject"
    /\ (pc = "done" /\ src1Outcome = "threw") => src2Outcome # "none"
    /\ (pc = "done" /\ FirstSourceFailed /\ SecondSourceFailed) =>
          /\ resolverResult = "null"
          /\ error = "null"

\* both sources threw and the resolver returned null
C4_Witness ==
    /\ pc = "done"
    /\ src1Outcome = "threw"
    /\ src2Outcome = "threw"
    /\ resolverResult = "null"
    /\ ~geoJsonData.isNull

\* the resolver returned a feature list
ResolverReturned == pc = "done" /\ resolverResult = "data"

\* the features came from the local file, which is shown unfiltered
FromLocalFile == variant = "localfile" /\ src1Outcome = "returned"

\* C5: every returned feature has a county among the five, a non-empty
\* GEOID, non-empty geometry coordinates and is not water; the county and
\* water rules bind the filtering sources, the other two every source.
C5_KeepRules ==
    ResolverReturned =>
        \A i \in 1..Len(boundaries) :
            LET f == boundaries[i]
            IN  /\ f.props.GEOID # <<>>
                /\ HasCoordinates(f.geometry)
                /\ ~FromLocalFile =>
                      /\ f.props.county \in nycCounties
                      /\ ~NameSaysWater(ToLowerCase(f.props.NAME))

\* C6: every returned feature carries a GEOID of exactly 11 characters.
C6_GeoidLength ==
    ResolverReturned =>
        \A i \in 1..Len(boundaries) : Len(boundaries[i].props.GEOID) = 11

-----------------------------------------------------------------------------
(* Properties of the geometry sanitizer (SpecGeometry) *)

InBounds(pair) ==
    /\ nycBounds.minLon <= pair[1] /\ pair[1] <= nycBounds.maxLon
    /\ nycBounds.minLat <= pair[2] /\ pair[2] <= nycBounds.maxLat

AllPairsInBounds(rings) ==
    \A r \in 1..Len(rings) : \A k \in 1..Len(rings[r]) : InBounds(rings[r][k])

GeometryInBounds(geometry) ==
    IF geometry.type = "Polygon" THEN AllPairsInBounds(geometry.coordinates)
    ELSE IF geometry.type = "MultiPolygon"
    THEN \A q \in 1..Len(geometry.coordinates) :
            AllPairsInBounds(geometry.coordinates[q])
    ELSE TRUE

\* C7: for every input pair, swapped or not, each returned pair has its
\* longitude within [minLon, maxLon] and its latitude within
\* [minLat, maxLat].
C7_AlwaysClamped ==
    /\ coordDone => InBounds(coordOut)
    /\ geomDone => GeometryInBounds(geomOut)

\* C8: the pair (40.71, -74.00), a latitude in the longitude slot and a
\* longitude in the latitude slot, is returned as (-74.00, 40.71).
C8_SwapRestored ==
    (coordDone /\ coordIn = <<40710, -74000>>) => coordOut = <<-74000, 40710>>

-----------------------------------------------------------------------------
(* Properties of transformTractData (SpecTransform) *)

\* a raw input that is missing or a Census sentinel
AbsentInput(value) == value = <<>> \/ value = <<SENTINEL_6>>

CarFreeNeeds == {"noCarHouseholds", "noCarHouseholdsRenter", "totalHousingUnits"}
TransitNeeds == {"publicTransitCommuters", "totalCommuters"}
VulnerableNeeds ==
    {"populationUnder18", "populationUnder18Female", "population65Plus",
     "population65PlusFemale", "disabledPopulation", "totalPopulation"}

\* C9: for a record whose totalHousingUnits is 0, carFreePercent and carfree
\* are absent after transformTractData.
C9_ZeroDenominatorAbsent ==
    (xformDone /\ rawIn.vals["totalHousingUnits"] = <<0>>) =>
        /\ xformOut.carFreePercent = <<>>
        /\ xformOut.carfree = <<>>

\* C10: a derived metric one of whose raw inputs is missing or a sentinel is
\* absent in the transformed record.
C10_AbsentInputAbsentMetric ==
    xformDone =>
        /\ (\E k \in CarFreeNeeds : AbsentInput(rawIn.vals[k])) =>
              xformOut.carFreePercent = <<>>
        /\ (\E k \in TransitNeeds : AbsentInput(rawIn.vals[k])) =>
              xformOut.transitScore = <<>>
        /\ (\E k \in VulnerableNeeds : AbsentInput(rawIn.vals[k])) =>
              xformOut.vulnerablePercent = <<>>

\* a Census annotation value: nine times the same digit, negative
SentinelLike(value) ==
    value # <<>> /\ \E d \in 1..9 : value[1] = -(d * 111111111)

DisplayFields == {"income", "carfree", "transit", "vulnerable"}

\* C11: every raw variable whose value is a Census sentinel is absent in the
\* output of transformTractData, and the display fields income, carfree,
\* transit and vulnerable are never negative.
C11_SentinelsAbsent ==
    xformDone =>
        /\ \A k \in VariableKeys :
              SentinelLike(rawIn.vals[k]) => xformOut.vals[k] = <<>>
        /\ \A f \in DisplayFields :
              xformOut[f] = <<>> \/ xformOut[f][1] >= 0

-----------------------------------------------------------------------------
(* Properties of CensusApiCache (SpecCache) *)

\* C12: an entry set with a ttl is returned by get iff now <= timestamp +
\* ttl, for every ttl passed to set, and a get that finds the entry expired
\* removes it from the map.
C12_CacheTtl ==
    (lastGet.key # "none" /\ lastGet.found.present /\ lastGet.asked # <<>>) =>
        /\ lastGet.hit <=>
              lastGet.at <= lastGet.found.timestamp + lastGet.asked[1]
        /\ lastGet.hit => lastGet.data = lastGet.found.data
        /\ ~lastGet.hit => lastGet.evicted

-----------------------------------------------------------------------------
(* Properties of the statistics fetch and of the load cycle (Spec) *)

\* C13: the failure of one county's fetch is not fatal: fetchNYCTractsData
\* still resolves, and its result holds the records of every county whose
\* fetch succeeded.
C13_CountyFailureNonFatal ==
    /\ statsResult # "rejected"
    /\ statsResult = "resolved" =>
          /\ Len(transformed) = Len(allTracts)
          /\ \A i \in 1..Len(allTracts) : transformed[i].GEOID = allTracts[i].GEOID

\* every statistic fetch of the cycle failed, and every boundary source that
\* was asked failed too
EverythingFailed ==
    /\ pc = "done"
    /\ ~anyCountyOk
    /\ \/ statsResult = "rejected"
       \/ statsResult = "resolved" /\ FirstSourceFailed /\ SecondSourceFailed

\* C14: a load cycle in which every statistic fetch and every boundary
\* source failed ends with error non-null, never with error null and an
\* empty feature set.
C14_FailedLoadHasError ==
    EverythingFailed =>
        /\ error # "null"
        /\ ~(error = "null" /\ Len(geoJsonData.features) = 0)


-----------------------------------------------------------------------------
(* Properties of overlapping calls (SpecRefresh) *)

AllCyclesDone ==
    /\ started = MaxCycles
    /\ \A c \in 1..MaxCycles : cyc[c].pc = "done"

\* C15: when loadData is called again before the previous call finished,
\* then once all calls have finished tractsData, geoJsonData and error are
\* those of the call started last, whichever order they complete in.
C15_LatestCycleWins ==
    AllCyclesDone =>
        /\ tractsData = cyc[started].outTracts
        /\ geoJsonData = cyc[started].outGeo
        /\ error = cyc[started].outError

InFlight(key) ==
    IF key = "nyc-tracts"
    THEN {c \in 1..MaxCycles : cyc[c].pc = "stats"}
    ELSE {k \in 1..MaxTractCalls : tractCall[k] = "fetching"}

\* C16: for any cache key at most one fetch is in flight at a time, and a
\* call made while another is pending does not populate the cache a second
\* time.
C16_SingleFlight ==
    \A key \in CacheKeys :
        /\ Cardinality(InFlight(key)) <= 1
        /\ setCount[key] <= 1


-----------------------------------------------------------------------------
(* Properties of an empty answer of the first source (Spec) *)

FirstSourceAnswered == src1Outcome \in {"empty", "returned"}

\* C17: when the first boundary source answers successfully but yields an
\* empty result, zero features as returned or zero features left after
\* normalization and filtering, the resolver falls back to the next source
\* instead of returning an empty feature list.
C17_EmptyResultFallsBack ==
    /\ (pc \in {"geo2", "done"} /\ src1Outcome = "empty") => attempts2 = 1
    /\ (pc = "done" /\ FirstSourceAnswered /\ attempts2 = 0) =>
          Len(boundaries) > 0


-----------------------------------------------------------------------------
(* Properties of the synthetic boundaries (Spec) *)

\* the resolver returned none, or a collection with no features
NoBoundaries ==
    /\ pc = "done"
    /\ \/ resolverResult = "null"
       \/ resolverResult = "data" /\ Len(boundaries) = 0

\* C18: whenever the resolver returns none, or a collection with no
\* features, geoJsonData holds exactly one Polygon feature per transformed
\* statistic record, carrying that record's GEOID, and the cycle ends with
\* error null.
C18_MockPerRecord ==
    NoBoundaries =>
        /\ ~geoJsonData.isNull
        /\ Len(geoJsonData.features) = Len(transformed)
        /\ \A i \in 1..Len(transformed) :
              /\ geoJsonData.features[i].geometry.type = "Polygon"
              /\ geoJsonData.features[i].props.GEOID = transformed[i].GEOID
        /\ error = "null"
        /\ ~loading

\* both sources failed after two statistic records were loaded, and two
\* synthetic polygons were drawn
C18_Witness ==
    /\ pc = "done"
    /\ resolverResult = "null"
    /\ Len(transformed) = 2
    /\ Len(geoJsonData.features) = 2
    /\ geoJsonData.features[2].geometry.type = "Polygon"
    /\ geoJsonData.features[2].props.GEOID = transformed[2].GEOID
    /\ error = "null"


-----------------------------------------------------------------------------
(* Properties of a provider that never answers (SpecLive) *)

\* C19: if a provider never responds to a fetch, that fetch is eventually
\* treated as a failure: the resolver moves on from the first source, and
\* every load cycle eventually leaves the loading state.
C19_PendingFetchEnds ==
    /\ <>(~loading)
    /\ (pc = "geo1") ~> (pc \in {"geo2", "done"})

-----------------------------------------------------------------------------
(* Properties of the water classifiers (SpecWater) *)

\* the three conditions of the tract-code path, read off the identifier
CodePathHolds(feature) ==
    LET id == feature.props.GEOID
    IN  /\ Len(id) >= 11
        /\ IsWaterSuffix(SubSeq(id, 9, Len(id)))
        /\ feature.geometry.type # "null"
        /\ AreaBelowThreshold(feature.geometry)

WaterVerdicts == {waterOut.v1, waterOut.v2}

\* C20: absent a water keyword in its name, a feature is classified as water
\* only if its identifier has at least 11 characters, the last three digits
\* of the tract code read as 0.<suffix> equal 0, 0.01, 0.98 or 0.99, and the
\* shoelace area over the outer rings is below 0.00001; a feature with suffix
\* 0.99 and area 0.000001 is water and the same feature with area 0.01 is
\* not.
C20_WaterByCode ==
    (waterDone /\ ~NameSaysWater(ToLowerCase(waterIn.props.NAME))) =>
        /\ \A verdict \in WaterVerdicts : verdict => CodePathHolds(waterIn)
        /\ (/\ waterIn.props.GEOID = Digits(<<3, 6, 0, 8, 5, 0, 0, 0, 9, 9, 0>>)
            /\ waterIn.geometry = Polygon(<<TinyRing>>))
              => WaterVerdicts = {TRUE}
        /\ (/\ waterIn.props.GEOID = Digits(<<3, 6, 0, 8, 5, 0, 0, 0, 9, 9, 0>>)
            /\ waterIn.geometry = Polygon(<<WideRing>>))
              => WaterVerdicts = {FALSE}


\* the display name carries one of the three keywords, in any letter case
NamedAsWater(feature) ==
    \E keyword \in {<<"w", "a", "t", "e", "r">>, <<"m", "a", "r", "i", "n", "e">>,
                    <<"o", "c", "e", "a", "n">>} :
       \E i \in 1..Len(feature.props.NAME) :
          /\ i + Len(keyword) - 1 <= Len(feature.props.NAME)
          /\ \A j \in 1..Len(keyword) :
                LowerOf(feature.props.NAME[i + j - 1]) = keyword[j]

-----------------------------------------------------------------------------
(* Properties of the identifier normalizers (SpecNormalize) *)

Normalizers == {"openData", "localFile", "fallback"}

\* the identifier a normalizer reads from the feature
IdentifierRead(feature, normalizer) ==
    IF normalizer = "fallback"
    THEN OrElse(feature.props.GEOID, feature.props.GEOID20)
    ELSE OrElse(feature.props.GEOID, feature.props.geoid)

Canonical(id) == Len(id) = 11 /\ \A i \in 1..Len(id) : id[i] # " "

\* C22: identifier normalization is idempotent: an identifier of exactly 11
\* characters without whitespace is returned unchanged, and normalizing any
\* identifier twice gives the same GEOID as normalizing it once, in the
\* primary and in the fallback normalizer.
C22_NormalizeIdempotent ==
    normDone =>
        \A n \in Normalizers :
            /\ Canonical(IdentifierRead(normIn, n)) =>
                  normOut[n][1].GEOID = IdentifierRead(normIn, n)
            /\ normOut[n][2].GEOID = normOut[n][1].GEOID


\* no identifier is present, and the feature carries a borough code
CountyFromBorough(feature, normalizer) ==
    /\ StripWs(IdentifierRead(feature, normalizer)) = <<>>
    /\ feature.props.borocode \in {<<"1">>, <<"2">>, <<"3">>, <<"4">>, <<"5">>}

\* C23: whenever a feature's county is derived from its borough code 1 to 5,
\* including when its GEOID is synthesized from borough code and tract code,
\* the county property and characters 2 to 4 of the GEOID equal the lookup
\* table's county: 1 gives 061, 2 gives 005, 3 gives 047, 4 gives 081, 5
\* gives 085.
C23_BoroughCounty ==
    normDone =>
        \A n \in {"openData", "localFile"} :
            CountyFromBorough(normIn, n) =>
                LET out == normOut[n][1]
                    expected ==
                        CASE normIn.props.borocode = <<"1">> -> <<"0", "6", "1">>
                          [] normIn.props.borocode = <<"2">> -> <<"0", "0", "5">>
                          [] normIn.props.borocode = <<"3">> -> <<"0", "4", "7">>
                          [] normIn.props.borocode = <<"4">> -> <<"0", "8", "1">>
                          [] normIn.props.borocode = <<"5">> -> <<"0", "8", "5">>
                IN  /\ out.county = expected
                    /\ Len(out.GEOID) >= 5 => SubSeq(out.GEOID, 3, 5) = expected


-----------------------------------------------------------------------------
(* Properties of the merged metrics (Spec) *)

\* `str` is num / den x 100 rounded to one decimal place, as a string with
\* one decimal
IsPercentOneDecimal(str, num, den) ==
    /\ str.dec = 1
    /\ Abs(2 * 1000 * num - 2 * den * str.scaled) <= den

CarInputsPresent(record) ==
    /\ record.vals["totalHousingUnits"] # <<>>
    /\ record.vals["noCarHouseholds"] # <<>>
    /\ record.vals["noCarHouseholdsRenter"] # <<>>
    /\ record.vals["totalHousingUnits"][1] > 0

\* C24: for a statistic record whose three inputs are present and whose
\* totalHousingUnits is greater than 0, the merged feature's carFreePercent
\* is (noCarHouseholds + noCarHouseholdsRenter) / totalHousingUnits x 100
\* rounded to one decimal place, as a string; 1000, 100 and 50 on GEOID
\* 36061000100 give "15.0".
C24_MergedCarFree ==
    MergeDone =>
        \A i \in 1..Len(geoJsonData.features) :
            LET f == geoJsonData.features[i]
            IN  (f.stats # <<>> /\ CarInputsPresent(f.stats[1])) =>
                   LET r == f.stats[1]
                   IN  /\ r.carFreePercent # <<>>
                       /\ IsPercentOneDecimal(r.carFreePercent[1],
                              r.vals["noCarHouseholds"][1]
                              + r.vals["noCarHouseholdsRenter"][1],
                              r.vals["totalHousingUnits"][1])
                       /\ (/\ r.vals["totalHousingUnits"] = <<1000>>
                           /\ r.vals["noCarHouseholds"] = <<100>>
                           /\ r.vals["noCarHouseholdsRenter"] = <<50>>)
                             => r.carFreePercent[1] = [scaled |-> 150, dec |-> 1]

\* the boundary of 36061000100 merged with its record of 1000, 100 and 50,
\* and the boundary of 36047000200 merged with 3, 1 and 1 ("66.7")
C24_Witness ==
    /\ MergeDone
    /\ \E i \in 1..Len(geoJsonData.features) :
          LET f == geoJsonData.features[i]
          IN  /\ f.props.GEOID = Digits(<<3, 6, 0, 6, 1, 0, 0, 0, 1, 0, 0>>)
              /\ f.stats # <<>>
              /\ f.stats[1].vals["totalHousingUnits"] = <<1000>>
              /\ f.stats[1].carFreePercent = <<[scaled |-> 150, dec |-> 1]>>
    /\ \E i \in 1..Len(geoJsonData.features) :
          LET f == geoJsonData.features[i]
          IN  /\ f.props.GEOID = Digits(<<3, 6, 0, 4, 7, 0, 0, 0, 2, 0, 0>>)
              /\ f.stats # <<>>
              /\ f.stats[1].vals["totalHousingUnits"] = <<3>>
              /\ f.stats[1].carFreePercent = <<[scaled |-> 667, dec |-> 1]>>


-----------------------------------------------------------------------------
(* Properties of the slider filter (SpecFilter) *)

\* the tract's value of a variable: the field of that name in its data
ValueOf(tractData, id) ==
    IF tractData.isNull \/ tractData.stats = <<>> THEN <<>>
    ELSE tractData.stats[1][id]

\* C25: a tract matches the slider filters iff, for every variable (carfree,
\* income, transit, vulnerable), the tract's value is present and lies within
\* that variable's [min, max] range, bounds included; a tract with no data,
\* or missing the value of any one variable, never matches.
C25_FilterMatch ==
    filterDone =>
        (filterOut <=>
            \A i \in 1..Len(variables) :
                LET v == ValueOf(filterIn, variables[i].id)
                IN  /\ v # <<>>
                    /\ variables[i].value[1] <= v[1]
                    /\ v[1] <= variables[i].value[2])


-----------------------------------------------------------------------------
(* Properties of the sort state of ResultsPanel (SpecSort) *)

\* C26: clicking the header of the column currently sorted cycles ascending,
\* then descending, then no sort; clicking any other column sorts that column
\* ascending; after any sequence of header clicks sortColumn is null iff
\* sortDirection is null.
C26_SortCycle ==
    /\ (sortColumn = "null") <=> (sortDirection = "null")
    /\ lastClick # NoClick =>
          IF lastClick.sortColumn = lastClick.column
          THEN /\ lastClick.sortDirection = "asc" =>
                     sortColumn = lastClick.column /\ sortDirection = "desc"
               /\ lastClick.sortDirection = "desc" =>
                     sortColumn = "null" /\ sortDirection = "null"
          ELSE sortColumn = lastClick.column /\ sortDirection = "asc"

\* the third click on the same header of the ternary version cleared the sort
C26_Witness ==
    /\ panelVersion = "toggle"
    /\ lastClick.column = "income"
    /\ lastClick.sortColumn = "income"
    /\ lastClick.sortDirection = "desc"
    /\ sortColumn = "null"
    /\ sortDirection = "null"


-----------------------------------------------------------------------------
(* Properties of the selection (SpecSelect) *)

\* C27: after any sequence of tract selections and removals, including two
\* selections of the same tract issued before the component re-renders,
\* selectedTracts never holds two entries with the same GEOID.
C27_NoDuplicateSelection ==
    \A i, j \in 1..Len(selectedTracts) :
        i # j => selectedTracts[i] # selectedTracts[j]


\* call c of fetchNYCTractsData has resolved (its list is cyc[c].allTracts)
YearResolved(c) ==
    \/ cyc[c].pc \in {"geo1", "geo2"}
    \/ cyc[c].pc = "done" /\ cyc[c].outError = "null"

\* C28: once fetchNYCTractsData has resolved for a year, its result is
\* cached as it is, also when it is partial or empty, and every later call
\* for that year within one hour returns that same list without a network
\* request: a call starting now finds the list in the cache.
C28_ResolvedListStaysCached ==
    \A c \in 1..MaxCycles :
        YearResolved(c) =>
            LET later == cacheGet(cacheMap, "nyc-tracts", now)
            IN  /\ later.hit
                /\ later.data = cyc[c].allTracts


NoCycleInFlight == \A c \in 1..MaxCycles : cyc[c].pc \in {"idle", "done"}

\* C29: whenever no load cycle is in flight, also after overlapping cycles,
\* error is non-null only if tractsData is empty and geoJsonData is null.
C29_ErrorMeansNoData ==
    (NoCycleInFlight /\ error # "null") =>
        /\ tractsData = <<>>
        /\ geoJsonData.isNull


-----------------------------------------------------------------------------
(* Properties of the hover state (SpecHover) *)

FetchInFlight == \E k \in 1..MaxHovers : hoverCall[k].pc = "fetching"

\* C30: while a hover-triggered detail fetch for some tract is still in
\* flight, loadingTract is not null, also when hovers on several tracts
\* overlap and one of them completes first.
C30_LoadingWhileInFlight == FetchInFlight => loadingTract # Undefined

====
